---- MODULE Spec2Model ----
(***************************************************************************)
(* Model of the scan-import core of vexscan-api-v2: the Nessus adapter     *)
(* (parse, severity, fingerprint), the adapter registry, the finding       *)
(* reconciliation of ImportServiceOptimized and the import workflows.      *)
(*                                                                         *)
(* Each part is a state machine over its own variables; the other          *)
(* variables stay idle.  Specifications:                                   *)
(*   SpecFp     NessusAdapter._generate_fingerprint on pairs of findings   *)
(*   SpecItem   NessusAdapter._parse_report_item on one ReportItem         *)
(*   SpecParse  NessusAdapter.parse, host by host, item by item            *)
(*   SpecReg    AdapterRegistry and get_adapter_for_file                   *)
(*   SpecRecon  ImportServiceOptimized._save_scan_results_batch            *)
(*   SpecRace   two calls of _save_scan_results_batch on one database      *)
(*   SpecImport the import workflows (process_scan, v1, v2, v3)            *)
(***************************************************************************)
EXTENDS Integers, Sequences, FiniteSets, TLC

VARIABLES
    fpIn,       \* SpecFp: the pair of (finding, asset) inputs
    fpOut,      \* SpecFp: their fingerprints, <<>> before the call
    itemIn,     \* SpecItem: the ReportItem handed to _parse_report_item
    itemOut,    \* SpecItem: what _parse_report_item gave back
    parsePc,    \* SpecParse: position of NessusAdapter.parse
    result,     \* SpecParse: the ScanResult under construction
    cur,        \* SpecParse: the host being parsed (asset, findings so far)
    hostLog,    \* SpecParse: per ReportHost read, what _parse_host produced
    drawn,      \* SpecParse: number of ReportItems read so far
    adapters,   \* SpecReg: AdapterRegistry._adapters, in insertion order
    instances,  \* SpecReg: AdapterRegistry._instances
    regCall,    \* SpecReg: the last call made on the registry
    regOut,     \* SpecReg: what that call returned or raised
    store,      \* SpecRecon: the findings, finding_occurrences and assets tables
    run,        \* SpecRecon: the locals of _save_scan_results_batch
                \* (SpecRace: of the two calls, as a pair)
    reconPc,    \* SpecRecon: position of _save_scan_results_batch
    lastMatch,  \* SpecRecon: the stored finding last matched, before and after
    clock,      \* SpecRecon: datetime.utcnow()
    imports,    \* SpecImport: the scan_imports table
    blobs,      \* SpecImport: the objects in blob storage
    procs       \* SpecImport: the uploads under way, one record per call

fpVars    == <<fpIn, fpOut>>
itemVars  == <<itemIn, itemOut>>
parseVars == <<parsePc, result, cur, hostLog, drawn>>
regVars   == <<adapters, instances, regCall, regOut>>
reconVars == <<store, run, reconPc, lastMatch, clock>>
importVars == <<imports, blobs, procs>>
vars      == <<fpVars, itemVars, parseVars, regVars, reconVars, importVars>>

\* What each part leaves alone.
fpOthers     == <<itemVars, parseVars, regVars, reconVars, importVars>>
itemOthers   == <<fpVars, parseVars, regVars, reconVars, importVars>>
parseOthers  == <<fpVars, itemVars, regVars, reconVars, importVars>>
regOthers    == <<fpVars, itemVars, parseVars, reconVars, importVars>>
reconOthers  == <<fpVars, itemVars, parseVars, regVars, importVars>>
importOthers == <<fpVars, itemVars, parseVars, regVars, reconVars>>

\* Python's None, where a record is expected.
NoValue == [none |-> TRUE]

(***************************************************************************)
(* Strings.  Text is held as TLA+ strings; str.lower, str.upper, str.strip *)
(* and int() are given by tables over the strings the model draws.         *)
(***************************************************************************)

\* str.lower() on the strings of the model.
LowerTable ==
    [s \in {"WEB01", "Web01", "High", "HIGH", "Critical", "CRITICAL", "Medium",
            "Low", "None", "Info", "Informational", "Bogus", "Nessus", "Qualys",
            "NESSUS"} |->
        CASE s = "WEB01" -> "web01"
          [] s = "Web01" -> "web01"
          [] s = "High" -> "high"
          [] s = "HIGH" -> "high"
          [] s = "Critical" -> "critical"
          [] s = "CRITICAL" -> "critical"
          [] s = "Medium" -> "medium"
          [] s = "Low" -> "low"
          [] s = "None" -> "none"
          [] s = "Info" -> "info"
          [] s = "Informational" -> "informational"
          [] s = "Bogus" -> "bogus"
          [] s = "Nessus" -> "nessus"
          [] s = "Qualys" -> "qualys"
          [] s = "NESSUS" -> "nessus"]

Lower(s) == IF s \in DOMAIN LowerTable THEN LowerTable[s] ELSE s

\* str.strip().upper() on the <cve> texts of the model.
UpperStripTable ==
    [s \in {"cve-2021-0001", " CVE-2021-0001 ", "cve-2021-1111", " "} |->
        CASE s = "cve-2021-0001" -> "CVE-2021-0001"
          [] s = " CVE-2021-0001 " -> "CVE-2021-0001"
          [] s = "cve-2021-1111" -> "CVE-2021-1111"
          [] s = " " -> ""]

UpperStrip(s) == IF s \in DOMAIN UpperStripTable THEN UpperStripTable[s] ELSE s

\* int(s): the integer Python reads from s; strings outside the table raise
\* ValueError.
PyIntTable ==
    [s \in {"0", "1", "2", "3", "4", "5", "04", "-1", "10", "255", "256", "443",
            "80", "0443", "300"} |->
        CASE s = "0" -> 0
          [] s = "1" -> 1
          [] s = "2" -> 2
          [] s = "3" -> 3
          [] s = "4" -> 4
          [] s = "5" -> 5
          [] s = "04" -> 4
          [] s = "-1" -> -1
          [] s = "10" -> 10
          [] s = "255" -> 255
          [] s = "256" -> 256
          [] s = "443" -> 443
          [] s = "80" -> 80
          [] s = "0443" -> 443
          [] s = "300" -> 300]

IntRaises(s) == s \notin DOMAIN PyIntTable
PyInt(s) == PyIntTable[s]

\* str.isdigit(): every character a digit, at least one character.
IsDigit(s) == s \in DOMAIN PyIntTable /\ s # "-1"

\* The order sorted() puts the CVE strings of the model in (code-point order).
CveRank(c) ==
    CASE c = "" -> 0
      [] c = "CVE-2021-0001" -> 1
      [] c = "CVE-2021-1111" -> 2
      [] c = "CVE-2022-2222" -> 3
      [] OTHER -> 4

RECURSIVE JoinWith(_, _)
\* sep.join(seq)
JoinWith(seq, sep) ==
    IF seq = <<>> THEN ""
    ELSE IF Len(seq) = 1 THEN seq[1]
    ELSE seq[1] \o sep \o JoinWith(Tail(seq), sep)

RECURSIVE InsertSorted(_, _)
InsertSorted(c, seq) ==
    IF seq = <<>> THEN <<c>>
    ELSE IF CveRank(c) <= CveRank(seq[1]) THEN <<c>> \o seq
    ELSE <<seq[1]>> \o InsertSorted(c, Tail(seq))

RECURSIVE Sorted(_)
\* sorted(seq): every element kept, duplicates included.
Sorted(seq) ==
    IF seq = <<>> THEN <<>> ELSE InsertSorted(seq[1], Sorted(Tail(seq)))

RECURSIVE SeqSet(_)
\* set(seq)
SeqSet(seq) == IF seq = <<>> THEN {} ELSE {seq[1]} \cup SeqSet(Tail(seq))

(***************************************************************************)
(* NessusAdapter._generate_fingerprint                                     *)
(***************************************************************************)

\* hashlib.sha256(s).hexdigest()[:32], taken as injective on its input.
Digest(s) == <<"sha256/32", s>>

\* Variant of the components list that leaves the port/protocol and the CVEs out.
FingerprintStrAssetPluginOnly(finding, asset) ==
    JoinWith(<<Lower(asset.identifier),
               IF finding.plugin_id # "" THEN finding.plugin_id ELSE finding.title>>,
             "|")

\* The components list and its "|"-join (nessus.py 540-554).
FingerprintStr(finding, asset) ==
    LET base == <<Lower(asset.identifier),
                  IF finding.plugin_id # "" THEN finding.plugin_id
                                            ELSE finding.title>>
        withPort ==
            IF finding.port # 0
            THEN Append(base, ToString(finding.port) \o "/" \o
                              (IF finding.protocol # "" THEN finding.protocol
                                                        ELSE "tcp"))
            ELSE base
        withCves ==
            IF finding.cves # <<>>
            THEN Append(withPort, JoinWith(Sorted(finding.cves), ","))
            ELSE withPort
    IN  JoinWith(withCves, "|")

GenerateFingerprint(finding, asset) == Digest(FingerprintStr(finding, asset))

(***************************************************************************)
(* NessusAdapter._parse_report_item and _normalize_severity                *)
(***************************************************************************)

\* NormalizedSeverity values (dto.py 13-19).
Severities == {"Critical", "High", "Medium", "Low", "Info"}

\* NESSUS_SEVERITY_MAP (nessus.py 55-63).
NESSUS_SEVERITY_MAP ==
    [l \in {"critical", "high", "medium", "low", "none", "informational", "info"} |->
        CASE l = "critical" -> "Critical"
          [] l = "high" -> "High"
          [] l = "medium" -> "Medium"
          [] l = "low" -> "Low"
          [] OTHER -> "Info"]

\* NESSUS_NUMERIC_SEVERITY_MAP (nessus.py 66-72): keyed by the attribute text.
NESSUS_NUMERIC_SEVERITY_MAP ==
    [n \in {"4", "3", "2", "1", "0"} |->
        CASE n = "4" -> "Critical"
          [] n = "3" -> "High"
          [] n = "2" -> "Medium"
          [] n = "1" -> "Low"
          [] OTHER -> "Info"]

\* NessusAdapter.SKIP_PLUGIN_IDS (nessus.py 116-123).
SKIP_PLUGIN_IDS == {"19506", "10180", "11219", "34220", "14272", "34277"}

\* NessusAdapter.MIN_SEVERITY_LEVEL (nessus.py 126).
MIN_SEVERITY_LEVEL == 0

\* str.strip() on the element texts of the model.
Strip(s) ==
    CASE s = " High " -> "High"
      [] s = " " -> ""
      [] OTHER -> s

\* Variant of _normalize_severity that tries the numeric table first.
NormalizeSeverityNumericFirst(risk_factor, severity_num) ==
    IF severity_num \in DOMAIN NESSUS_NUMERIC_SEVERITY_MAP
    THEN NESSUS_NUMERIC_SEVERITY_MAP[severity_num]
    ELSE IF risk_factor # "" /\ Lower(risk_factor) \in DOMAIN NESSUS_SEVERITY_MAP
    THEN NESSUS_SEVERITY_MAP[Lower(risk_factor)]
    ELSE "Info"

\* NessusAdapter._normalize_severity (nessus.py 495-512).
NormalizeSeverity(risk_factor, severity_num) ==
    IF risk_factor # "" /\ Lower(risk_factor) \in DOMAIN NESSUS_SEVERITY_MAP
    THEN NESSUS_SEVERITY_MAP[Lower(risk_factor)]
    ELSE IF severity_num \in DOMAIN NESSUS_NUMERIC_SEVERITY_MAP
    THEN NESSUS_NUMERIC_SEVERITY_MAP[severity_num]
    ELSE "Info"

RECURSIVE CollectCves(_)
\* The <cve> loop (nessus.py 386-389): empty texts dropped, the others stripped
\* and upper-cased, repeats kept.
CollectCves(texts) ==
    IF texts = <<>> THEN <<>>
    ELSE IF texts[1] = "" THEN CollectCves(Tail(texts))
    ELSE <<UpperStrip(texts[1])>> \o CollectCves(Tail(texts))

\* port_int (nessus.py 429).
PortInt(port) == IF IsDigit(port) THEN PyInt(port) ELSE 0

\* Variant of the deny-list test that skips nothing.
IsSkippedPluginNever(plugin_id) == FALSE

\* The plugin deny-list test (nessus.py 354).
IsSkippedPlugin(plugin_id) == plugin_id \in SKIP_PLUGIN_IDS

\* The RawFinding built at nessus.py 435-491 (the fields the import reads).
\* port 0 stands for None, protocol "" for None.
BuildFinding(item, asset) ==
    LET risk_factor == Strip(item.risk_factor)
        port_int == PortInt(item.port)
        f == [title |-> item.pluginName,
              severity |-> NormalizeSeverity(risk_factor, item.severity),
              original_severity |->
                  IF risk_factor # "" THEN risk_factor
                  ELSE "severity_" \o item.severity,
              risk_factor |-> risk_factor,
              asset_identifier |-> asset.identifier,
              port |-> IF port_int > 0 THEN port_int ELSE 0,
              protocol |-> item.protocol,
              cves |-> CollectCves(item.cves),
              plugin_id |-> item.pluginID]
    IN  f @@ [fingerprint |-> GenerateFingerprint(f, asset)]

\* NessusAdapter._parse_report_item (nessus.py 336-493): "skip" is the None
\* return, "raise" the ValueError of int(severity_num), "finding" a RawFinding.
ParseReportItem(item, asset) ==
    IF IsSkippedPlugin(item.pluginID)
    THEN [kind |-> "skip", finding |-> NoValue]
    ELSE IF IntRaises(item.severity)
    THEN [kind |-> "raise", finding |-> NoValue]
    ELSE IF PyInt(item.severity) < MIN_SEVERITY_LEVEL
    THEN [kind |-> "skip", finding |-> NoValue]
    ELSE IF item.pluginName = "" /\ item.description = ""
    THEN [kind |-> "skip", finding |-> NoValue]
    ELSE [kind |-> "finding", finding |-> BuildFinding(item, asset)]

(***************************************************************************)
(* NessusAdapter._create_asset, _parse_host and parse                      *)
(***************************************************************************)

\* value.split(".") on the host strings of the model.
SplitDots(s) ==
    CASE s = "10.0.0.1" -> <<"10", "0", "0", "1">>
      [] s = "10.0.0.2" -> <<"10", "0", "0", "2">>
      [] s = "300.1.1.1" -> <<"300", "1", "1", "1">>
      [] s = "10.0.1" -> <<"10", "0", "1">>
      [] OTHER -> <<s>>

\* NessusAdapter._is_valid_ip (nessus.py 586-600).
IsValidIp(value) ==
    /\ value # ""
    /\ LET parts == SplitDots(value)
       IN  /\ Len(parts) = 4
           /\ \A i \in 1..4 : ~IntRaises(parts[i])
           /\ \A i \in 1..4 : 0 <= PyInt(parts[i]) /\ PyInt(parts[i]) <= 255

\* A ReportHost's name attribute may be missing.
NoName == "<no name attribute>"
\* An absent host-ip tag.
NoTag == "<no tag>"

\* host_elem.get("name", "") (nessus.py 244).
HostName(h) == IF h.name = NoName THEN "" ELSE h.name
\* host_elem.get("name", "unknown") (nessus.py 191).
HostErrName(h) == IF h.name = NoName THEN "unknown" ELSE h.name

\* NessusAdapter._create_asset (nessus.py 275-334); timestamps and the
\* descriptive properties are left out.
CreateAsset(host_name, host_ip) ==
    LET ip_address == IF host_ip = NoTag THEN host_name ELSE host_ip
        identifier == IF IsValidIp(ip_address) THEN ip_address ELSE host_name
    IN  [identifier |-> identifier,
         asset_type |-> IF IsValidIp(identifier) THEN "ip" ELSE "host",
         ip_address |-> IF IsValidIp(ip_address) THEN ip_address ELSE ""]

\* ScanResult(scanner=..., findings_by_severity={s: 0 ...}) (nessus.py 156-159).
EmptyResult ==
    [assets |-> <<>>, findings |-> <<>>, total_hosts |-> 0, total_findings |-> 0,
     findings_by_severity |-> [s \in Severities |-> 0],
     errors |-> <<>>, warnings |-> <<>>]

\* Variant of the loop at nessus.py 186-188 that leaves the counters alone.
AppendFindingsUncounted(res, findings) ==
    [res EXCEPT !.findings = @ \o findings]

RECURSIVE AppendFindings(_, _)
\* The loop at nessus.py 186-188.
AppendFindings(res, findings) ==
    IF findings = <<>> THEN res
    ELSE AppendFindings(
            [res EXCEPT !.findings = Append(@, findings[1]),
                        !.findings_by_severity[findings[1].severity] = @ + 1],
            Tail(findings))

\* The try body after _parse_host returned (nessus.py 183-188).
HostDone(res, asset, findings) ==
    AppendFindings([res EXCEPT !.assets = Append(@, asset)], findings)

\* Variant of the except branch that also throws away what was collected.
HostFailedDropsResult(res, h) ==
    [res EXCEPT !.errors = Append(@, "Error parsing host '" \o HostErrName(h) \o "'"),
                !.assets = <<>>, !.findings = <<>>]

\* The except branch (nessus.py 190-194).
HostFailed(res, h) ==
    [res EXCEPT !.errors = Append(@, "Error parsing host '" \o HostErrName(h) \o "'")]

(***************************************************************************)
(* Bounds and input domains                                                *)
(***************************************************************************)

\* Longest CVE list of a finding handed to _generate_fingerprint.
MaxCves == 2

\* The upper-cased CVE ids findings carry.
CveIds == {"CVE-2021-0001", "CVE-2021-1111"}

CveLists == UNION {[1..n -> CveIds] : n \in 0..MaxCves}

\* (finding, asset) inputs of _generate_fingerprint.
FpInputs ==
    [identifier : {"WEB01", "web01"},
     plugin_id : {"", "51192"},
     title : {"T1", "T2"},
     port : {0, 80, 443},
     protocol : {"", "udp"},
     cves : CveLists]

\* ReportItems handed to _parse_report_item on its own.
ItemDomain ==
    [pluginID : {"19506", "51192", ""},
     severity : {"0", "1", "2", "3", "4", "5", "04", "-1", "x"},
     risk_factor : {"", "Critical", "HIGH", "medium", "Low", "None",
                    "Informational", "info", "Bogus", " High "},
     pluginName : {"", "T1"},
     description : {"", "d"},
     port : {"0", "443", "0443"},
     protocol : {"tcp"},
     cves : {<<>>, <<"cve-2021-0001">>}]

\* Most ReportHost elements of one file.
MaxHosts == 2

\* Most ReportItem elements of one file, over all hosts.
MaxItems == 2

\* ReportHost headers of a parsed file.
HostDomain ==
    [name : {"WEB01", "db02", "10.0.0.2", NoName},
     host_ip : {NoTag, "10.0.0.1", "300.1.1.1"}]

\* ReportItems of a parsed file.
FileItemDomain ==
    [pluginID : {"19506", "51192"},
     severity : {"3", "-1", "x"},
     risk_factor : {"", "Low"},
     pluginName : {"T1"},
     description : {""},
     port : {"443"},
     protocol : {"tcp"},
     cves : {<<>>}]

\* The asset a lone ReportItem belongs to.
ItemAsset == [identifier |-> "WEB01"]

(***************************************************************************)
(* SpecFp: _generate_fingerprint applied to two findings                   *)
(***************************************************************************)

FpIdle == fpIn = <<>> /\ fpOut = <<>>
ItemIdle == itemIn = NoValue /\ itemOut = NoValue
ParseIdle ==
    /\ parsePc = "idle" /\ result = NoValue /\ cur = NoValue
    /\ hostLog = <<>> /\ drawn = 0
RegIdle ==
    /\ adapters = <<>> /\ instances = {}
    /\ regCall = NoValue /\ regOut = NoValue
ReconIdle ==
    /\ store = NoValue /\ run = NoValue /\ reconPc = "idle"
    /\ lastMatch = NoValue /\ clock = 0
ImportIdle == imports = <<>> /\ blobs = {} /\ procs = <<>>

FpInit ==
    /\ fpIn \in FpInputs \X FpInputs
    /\ fpOut = <<>>
    /\ ItemIdle /\ ParseIdle /\ RegIdle /\ ReconIdle /\ ImportIdle

\* Both findings get their fingerprint (nessus.py 491).
FpGenerate ==
    /\ fpOut = <<>>
    /\ fpOut' = <<GenerateFingerprint(fpIn[1], fpIn[1]),
                  GenerateFingerprint(fpIn[2], fpIn[2])>>
    /\ UNCHANGED <<fpIn, fpOthers>>

FpNext == FpGenerate

SpecFp == FpInit /\ [][FpNext]_vars

(***************************************************************************)
(* SpecItem: _parse_report_item applied to one ReportItem                  *)
(***************************************************************************)

ItemInit == ItemIdle /\ FpIdle /\ ParseIdle /\ RegIdle /\ ReconIdle /\ ImportIdle

ItemParse ==
    /\ itemIn = NoValue
    /\ \E it \in ItemDomain :
           /\ itemIn' = it
           /\ itemOut' = ParseReportItem(it, ItemAsset)
    /\ UNCHANGED itemOthers

ItemNext == ItemParse

SpecItem == ItemInit /\ [][ItemNext]_vars

(***************************************************************************)
(* SpecParse: NessusAdapter.parse.  The file is read as it is parsed: each *)
(* step draws the next ReportHost or ReportItem of the document.           *)
(***************************************************************************)

ParseInit ==
    /\ parsePc = "start" /\ result = NoValue /\ cur = NoValue
    /\ hostLog = <<>> /\ drawn = 0
    /\ FpIdle /\ ItemIdle /\ RegIdle /\ ReconIdle /\ ImportIdle

\* ET.fromstring succeeds (nessus.py 163-169).
ParseBegin ==
    /\ parsePc = "start"
    /\ parsePc' = "hosts"
    /\ result' = EmptyResult
    /\ UNCHANGED <<cur, hostLog, drawn, parseOthers>>

\* ET.fromstring fails: ParseError is raised (nessus.py 201-206).
ParseMalformed ==
    /\ parsePc = "start"
    /\ parsePc' = "raised"
    /\ UNCHANGED <<result, cur, hostLog, drawn, parseOthers>>

\* No ReportHost in the file (nessus.py 171-173).
ParseNoHosts ==
    /\ parsePc = "hosts" /\ hostLog = <<>>
    /\ parsePc' = "done"
    /\ result' = [result EXCEPT !.warnings = Append(@, "No hosts found in scan file")]
    /\ UNCHANGED <<cur, hostLog, drawn, parseOthers>>

\* _parse_host starts on the next ReportHost (nessus.py 244-253).
ParseBeginHost ==
    /\ parsePc = "hosts" /\ Len(hostLog) < MaxHosts
    /\ \E h \in HostDomain :
          cur' = [host |-> h,
                  asset |-> CreateAsset(HostName(h), h.host_ip),
                  findings |-> <<>>,
                  items |-> <<>>]
    /\ parsePc' = "items"
    /\ UNCHANGED <<result, hostLog, drawn, parseOthers>>

\* One turn of the ReportItem loop (nessus.py 254-257).  An exception leaves
\* _parse_host, and the except branch of parse logs the host (190-194).
ParseItemStep ==
    /\ parsePc = "items" /\ drawn < MaxItems
    /\ drawn' = drawn + 1
    /\ \E it \in FileItemDomain :
          LET r == ParseReportItem(it, cur.asset)
              seen == Append(cur.items, it)
          IN  IF r.kind = "raise"
              THEN /\ result' = HostFailed(result, cur.host)
                   /\ hostLog' = Append(hostLog,
                          [host |-> cur.host, ok |-> FALSE, asset |-> cur.asset,
                           findings |-> <<>>, items |-> seen])
                   /\ cur' = NoValue
                   /\ parsePc' = "hosts"
              ELSE /\ cur' = [cur EXCEPT
                          !.items = seen,
                          !.findings = IF r.kind = "finding"
                                       THEN Append(@, r.finding) ELSE @]
                   /\ UNCHANGED <<result, hostLog, parsePc>>
    /\ UNCHANGED <<parseOthers>>

\* _parse_host returns; asset and findings join the result (nessus.py 183-188).
ParseEndHost ==
    /\ parsePc = "items"
    /\ result' = HostDone(result, cur.asset, cur.findings)
    /\ hostLog' = Append(hostLog,
           [host |-> cur.host, ok |-> TRUE, asset |-> cur.asset,
            findings |-> cur.findings, items |-> cur.items])
    /\ cur' = NoValue
    /\ parsePc' = "hosts"
    /\ UNCHANGED <<drawn, parseOthers>>

\* After the last ReportHost (nessus.py 175, 196, 214).
ParseFinish ==
    /\ parsePc = "hosts" /\ hostLog # <<>>
    /\ result' = [result EXCEPT !.total_hosts = Len(hostLog),
                                !.total_findings = Len(result.findings)]
    /\ parsePc' = "done"
    /\ UNCHANGED <<cur, hostLog, drawn, parseOthers>>

ParseNext ==
    \/ ParseBegin
    \/ ParseMalformed
    \/ ParseNoHosts
    \/ ParseBeginHost
    \/ ParseItemStep
    \/ ParseEndHost
    \/ ParseFinish

SpecParse == ParseInit /\ [][ParseNext]_vars

(***************************************************************************)
(* Claims on the fingerprint                                               *)
(***************************************************************************)

\* The fields the fingerprint is said to depend on agree: identifier up to
\* case, plugin id (title when the plugin id is empty), port, protocol and the
\* set of CVEs.
SameIdentity(a, b) ==
    /\ Lower(a.identifier) = Lower(b.identifier)
    /\ a.plugin_id = b.plugin_id
    /\ (a.plugin_id = "" => a.title = b.title)
    /\ a.port = b.port
    /\ a.protocol = b.protocol
    /\ SeqSet(a.cves) = SeqSet(b.cves)

\* C6: two findings with the same asset identifier (case-insensitively), plugin
\* id, port, protocol and set of CVEs receive the same fingerprint, whatever
\* the order and multiplicity of the CVEs listed.
C6_SameKeySameFingerprint ==
    (fpOut # <<>> /\ SameIdentity(fpIn[1], fpIn[2])) => fpOut[1] = fpOut[2]

\* b is a with its port changed and nothing else.
DifferOnlyInPort(a, b) ==
    /\ a.port # b.port
    /\ [a EXCEPT !.port = 0] = [b EXCEPT !.port = 0]

\* b is a with one CVE inserted somewhere in its list and nothing else.
OneCveAdded(a, b) ==
    /\ [a EXCEPT !.cves = <<>>] = [b EXCEPT !.cves = <<>>]
    /\ Len(b.cves) = Len(a.cves) + 1
    /\ \E i \in 1..Len(b.cves) :
           a.cves = SubSeq(b.cves, 1, i - 1) \o SubSeq(b.cves, i + 1, Len(b.cves))

\* C7: with an injective digest, two findings on the same asset with the same
\* plugin id (or title) that differ only in their port, or by one CVE added or
\* removed, receive different fingerprints.
C7_PortOrCveChangesFingerprint ==
    (/\ fpOut # <<>>
     /\ \/ DifferOnlyInPort(fpIn[1], fpIn[2])
        \/ OneCveAdded(fpIn[1], fpIn[2])
        \/ OneCveAdded(fpIn[2], fpIn[1]))
    => fpOut[1] # fpOut[2]

\* C7 witness: fingerprints were computed for a pair that differs only by one
\* CVE added to an already non-empty list.
C7_Witness ==
    /\ fpOut # <<>>
    /\ OneCveAdded(fpIn[1], fpIn[2])
    /\ fpIn[1].cves # <<>>
    /\ fpIn[1].port # 0

(***************************************************************************)
(* Claims on _parse_report_item                                            *)
(***************************************************************************)

\* C8: the severity of a finding is the label table's value for the lower-cased
\* risk_factor when the label is in the table, else the numeric table's value
\* when the severity attribute is one of 0..4, else Info.
C8_SeverityPrecedence ==
    (itemOut # NoValue /\ itemOut.kind = "finding") =>
        LET label == Lower(Strip(itemIn.risk_factor))
        IN  itemOut.finding.severity =
                IF label \in DOMAIN NESSUS_SEVERITY_MAP
                THEN NESSUS_SEVERITY_MAP[label]
                ELSE IF itemIn.severity \in {"0", "1", "2", "3", "4"}
                THEN NESSUS_NUMERIC_SEVERITY_MAP[itemIn.severity]
                ELSE "Info"

\* C8 witness: a finding whose recognised label (Low) overrode a numeric
\* severity that maps elsewhere (4, Critical).
C8_Witness ==
    /\ itemOut # NoValue
    /\ itemOut.kind = "finding"
    /\ itemIn.risk_factor = "Low"
    /\ itemIn.severity = "4"
    /\ itemOut.finding.severity = "Low"

(***************************************************************************)
(* Claims on NessusAdapter.parse                                           *)
(***************************************************************************)

RECURSIVE OkAssets(_)
\* The assets of the hosts whose processing did not raise, in document order.
OkAssets(log) ==
    IF log = <<>> THEN <<>>
    ELSE (IF log[1].ok THEN <<log[1].asset>> ELSE <<>>) \o OkAssets(Tail(log))

RECURSIVE OkFindings(_)
\* The findings of the hosts whose processing did not raise, in document order.
OkFindings(log) ==
    IF log = <<>> THEN <<>>
    ELSE (IF log[1].ok THEN log[1].findings ELSE <<>>) \o OkFindings(Tail(log))

FailedHosts(log) == {i \in 1..Len(log) : ~log[i].ok}

\* C4: on well-formed XML, parse never raises when processing a ReportHost
\* raises; the result holds the asset and the findings of every other host in
\* document order, and errors has an entry naming each failing host.
C4_HostFailureIsolated ==
    /\ parsePc = "raised" => (result = NoValue /\ hostLog = <<>>)
    /\ parsePc = "done" =>
          /\ result.assets = OkAssets(hostLog)
          /\ result.findings = OkFindings(hostLog)
          /\ \A i \in FailedHosts(hostLog) :
                \E k \in 1..Len(result.errors) :
                   result.errors[k] =
                       "Error parsing host '" \o HostErrName(hostLog[i].host) \o "'"
          /\ Len(result.errors) >= Cardinality(FailedHosts(hostLog))

\* C4 witness: parse returned after a host with findings was followed by a host
\* whose processing raised.
C4_Witness ==
    /\ parsePc = "done"
    /\ Len(hostLog) = 2
    /\ hostLog[1].ok /\ hostLog[1].findings # <<>>
    /\ ~hostLog[2].ok
    /\ result.errors # <<>>

\* C9: no finding of the result has a plugin_id of SKIP_PLUGIN_IDS, whatever
\* severity or risk_factor its ReportItem carried.
C9_DenyListedNeverReported ==
    /\ result # NoValue =>
          \A i \in 1..Len(result.findings) :
             result.findings[i].plugin_id \notin SKIP_PLUGIN_IDS
    /\ cur # NoValue =>
          \A i \in 1..Len(cur.findings) :
             cur.findings[i].plugin_id \notin SKIP_PLUGIN_IDS

\* C9 witness: parse returned a result with a finding from a host that also
\* carried a deny-listed ReportItem of severity 3 and risk_factor Low.
C9_Witness ==
    /\ parsePc = "done"
    /\ \E i \in 1..Len(hostLog) :
          /\ hostLog[i].ok
          /\ hostLog[i].findings # <<>>
          /\ \E k \in 1..Len(hostLog[i].items) :
                /\ hostLog[i].items[k].pluginID \in SKIP_PLUGIN_IDS
                /\ hostLog[i].items[k].severity = "3"
                /\ hostLog[i].items[k].risk_factor = "Low"

RECURSIVE SumOver(_, _)
\* The sum of counts[s] over the levels of S.
SumOver(counts, S) ==
    IF S = {} THEN 0
    ELSE LET s == CHOOSE x \in S : TRUE
         IN  counts[s] + SumOver(counts, S \ {s})

\* C18: in every ScanResult parse returns, total_findings is the number of
\* findings, each severity counter is the number of findings of that
\* severity, and the counters add up to total_findings.
C18_CountersMatchFindings ==
    parsePc = "done" =>
        /\ result.total_findings = Len(result.findings)
        /\ \A s \in Severities :
              result.findings_by_severity[s] =
                  Cardinality({i \in 1..Len(result.findings) :
                                  result.findings[i].severity = s})
        /\ SumOver(result.findings_by_severity, Severities) = result.total_findings

\* C18 witness: parse returned findings after a host was skipped on error.
C18_Witness ==
    /\ parsePc = "done"
    /\ result.errors # <<>>
    /\ result.total_findings >= 1

\* C19: every asset of the result has a non-empty identifier, has type ip
\* only when the identifier is a valid IPv4 address, and is identified by
\* the host-ip property when that is a valid IPv4 address and by the
\* ReportHost name otherwise.
C19_AssetIdentifier ==
    parsePc = "done" =>
        /\ \A k \in 1..Len(result.assets) :
              /\ result.assets[k].identifier # ""
              /\ result.assets[k].asset_type = "ip" =>
                    IsValidIp(result.assets[k].identifier)
        /\ \A i \in 1..Len(hostLog) :
              hostLog[i].ok =>
                  hostLog[i].asset.identifier =
                      IF hostLog[i].host.host_ip # NoTag
                            /\ IsValidIp(hostLog[i].host.host_ip)
                      THEN hostLog[i].host.host_ip
                      ELSE HostName(hostLog[i].host)

\* C20: when a ReportItem raises, the error is in errors, and the host's
\* asset and the findings of the host's other ReportItems are in the result.
C20_ItemFailureIsolated ==
    parsePc = "done" =>
        \A i \in FailedHosts(hostLog) :
            LET h == hostLog[i]
            IN  /\ result.errors # <<>>
                /\ h.asset \in SeqSet(result.assets)
                /\ \A k \in 1..Len(h.items) :
                      LET r == ParseReportItem(h.items[k], h.asset)
                      IN  r.kind = "finding" =>
                              r.finding \in SeqSet(result.findings)

(***************************************************************************)
(* The adapter registry (registry.py) and supports_file (base.py)          *)
(***************************************************************************)

\* Python's None, where a string or bytes value is expected.
NoStr == "<None>"

\* if x: on an Optional[str] or Optional[bytes].
Truthy(x) == x # NoStr /\ x # ""

\* The adapter class of the repository (nessus.py 98-113).
NessusAdapter ==
    [cls |-> "NessusAdapter", scanner_name |-> "nessus",
     supported_extensions |-> {".nessus", ".xml"},
     supported_mime_types |-> {"application/xml", "text/xml"}]

\* A further BaseScannerAdapter subclass a caller may register.
QualysAdapter ==
    [cls |-> "QualysAdapter", scanner_name |-> "qualys",
     supported_extensions |-> {".csv", ".xml"},
     supported_mime_types |-> {"text/csv"}]

AdapterClasses == {NessusAdapter, QualysAdapter}

\* Path(filename).suffix.lower() on the file names of the model.
SuffixLowerTable ==
    [f \in {"scan.nessus", "SCAN.XML", "export.csv", "data.bin"} |->
        CASE f = "scan.nessus" -> ".nessus"
          [] f = "SCAN.XML" -> ".xml"
          [] f = "export.csv" -> ".csv"
          [] f = "data.bin" -> ".bin"]

SuffixLower(filename) == SuffixLowerTable[filename]

\* BaseScannerAdapter.supports_file (base.py 63-82).
SupportsFile(adapter, filename, mime_type) ==
    \/ SuffixLower(filename) \in adapter.supported_extensions
    \/ Truthy(mime_type) /\ mime_type \in adapter.supported_mime_types

\* The signatures of _quick_validate found in
\* content[:1000].decode('utf-8', errors='ignore').lower().
ContentSignatures ==
    [c \in {"", "Qualys copy of <NessusClientData_v2>"} |->
        CASE c = "" -> {}
          [] c = "Qualys copy of <NessusClientData_v2>" -> {"qualys", "nessusclientdata"}]

\* The signatures each scanner_name is sniffed by (registry.py 136-147).
QuickSignatures ==
    [n \in {"nessus", "invicti", "acunetix", "burp", "qualys", "openvas"} |->
        CASE n = "nessus" -> {"nessusclientdata", "<nessusreport"}
          [] n = "invicti" -> {"invicti", "netsparker"}
          [] n = "acunetix" -> {"acunetix"}
          [] n = "burp" -> {"burp", "<issues"}
          [] n = "qualys" -> {"qualys"}
          [] n = "openvas" -> {"openvas", "<omp"}]

\* AdapterRegistry._quick_validate (registry.py 125-149).
QuickValidate(adapter, content) ==
    IF adapter.scanner_name \in DOMAIN QuickSignatures
    THEN QuickSignatures[adapter.scanner_name] \cap ContentSignatures[content] # {}
    ELSE FALSE

\* _adapters.keys(), in insertion order.
RECURSIVE AdapterKeys(_)
AdapterKeys(ads) ==
    IF ads = <<>> THEN <<>> ELSE <<Head(ads).name>> \o AdapterKeys(Tail(ads))

HasKey(ads, name) == \E i \in 1..Len(ads) : ads[i].name = name

\* _adapters[name].
ClassOf(ads, name) == ads[CHOOSE i \in 1..Len(ads) : ads[i].name = name].cls

\* _adapters[name] = adapter_class: a new key goes last, a known key keeps
\* its place (registry.py 50).
SetAdapter(ads, name, adapter_class) ==
    IF HasKey(ads, name)
    THEN [i \in 1..Len(ads) |->
            IF ads[i].name = name THEN [name |-> name, cls |-> adapter_class]
            ELSE ads[i]]
    ELSE Append(ads, [name |-> name, cls |-> adapter_class])

HasInstance(inst, name) == \E r \in inst : r.name = name
InstanceOf(inst, name) == (CHOOSE r \in inst : r.name = name).cls

NotFoundMsg(ads, name) ==
    "Adapter '" \o name \o "' not found. Available adapters: "
        \o JoinWith(AdapterKeys(ads), ", ")

\* get_adapter after name = name.lower() (registry.py 72-82).
LookupAdapter(ads, inst, name) ==
    IF ~HasKey(ads, name)
    THEN [kind |-> "raise", msg |-> NotFoundMsg(ads, name),
          adapter |-> NoValue, instances |-> inst]
    ELSE LET inst2 == IF HasInstance(inst, name) THEN inst
                      ELSE inst \cup {[name |-> name, cls |-> ClassOf(ads, name)]}
         IN  [kind |-> "adapter", msg |-> "",
              adapter |-> InstanceOf(inst2, name), instances |-> inst2]

\* AdapterRegistry.get_adapter (registry.py 56-82): the adapter returned or
\* the ValueError raised, and _instances afterwards.
GetAdapter(ads, inst, name) == LookupAdapter(ads, inst, Lower(name))

NoAdapterFound(inst) ==
    [kind |-> "none", msg |-> "", adapter |-> NoValue, instances |-> inst]

\* The first loop of detect_adapter, from the i-th key on (registry.py
\* 103-107).  get_adapter is called outside any try: its ValueError leaves
\* the loop and detect_adapter.
RECURSIVE DetectByExtension(_, _, _, _, _)
DetectByExtension(i, ads, inst, filename, mime_type) ==
    IF i > Len(ads) THEN NoAdapterFound(inst)
    ELSE LET g == GetAdapter(ads, inst, ads[i].name)
         IN  IF g.kind = "raise" THEN g
             ELSE IF SupportsFile(g.adapter, filename, mime_type) THEN g
             ELSE DetectByExtension(i + 1, ads, g.instances, filename, mime_type)

\* The second loop of detect_adapter (registry.py 111-120).
RECURSIVE DetectByContent(_, _, _, _)
DetectByContent(i, ads, inst, file_content) ==
    IF i > Len(ads) THEN NoAdapterFound(inst)
    ELSE LET g == GetAdapter(ads, inst, ads[i].name)
         IN  IF g.kind = "raise" THEN g
             ELSE IF QuickValidate(g.adapter, file_content) THEN g
             ELSE DetectByContent(i + 1, ads, g.instances, file_content)

\* AdapterRegistry.detect_adapter (registry.py 84-123).
DetectAdapter(ads, inst, filename, file_content, mime_type) ==
    LET e == DetectByExtension(1, ads, inst, filename, mime_type)
    IN  IF e.kind # "none" THEN e
        ELSE IF Truthy(file_content)
             THEN DetectByContent(1, ads, e.instances, file_content)
             ELSE e

\* AdapterRegistry.list_adapters (registry.py 151-165): the registered_name
\* of every entry, or the ValueError of get_adapter.
RECURSIVE ListAdapters(_, _, _, _)
ListAdapters(i, ads, inst, names) ==
    IF i > Len(ads)
    THEN [kind |-> "list", msg |-> "", names |-> names, instances |-> inst]
    ELSE LET g == GetAdapter(ads, inst, ads[i].name)
         IN  IF g.kind = "raise"
             THEN [kind |-> "raise", msg |-> g.msg, names |-> <<>>,
                   instances |-> g.instances]
             ELSE ListAdapters(i + 1, ads, g.instances, Append(names, ads[i].name))

NoSuitableMsg(filename, names) ==
    "No suitable adapter found for file '" \o filename
        \o "'. Available adapters: " \o JoinWith(names, ", ")

\* get_adapter_for_file (registry.py 180-217).
GetAdapterForFile(ads, inst, filename, file_content, scanner_hint) ==
    LET h == IF Truthy(scanner_hint) THEN GetAdapter(ads, inst, scanner_hint)
             ELSE NoAdapterFound(inst)
    IN  IF h.kind = "adapter" /\ SupportsFile(h.adapter, filename, NoStr)
        THEN h
        ELSE LET d == DetectAdapter(ads, h.instances, filename, file_content, NoStr)
             IN  IF d.kind # "none" THEN d
                 ELSE LET l == ListAdapters(1, ads, d.instances, <<>>)
                      IN  [kind |-> "raise",
                           msg |-> IF l.kind = "raise" THEN l.msg
                                   ELSE NoSuitableMsg(filename, l.names),
                           adapter |-> NoValue,
                           instances |-> l.instances]

(***************************************************************************)
(* SpecReg: calls on the registry                                          *)
(***************************************************************************)

\* Most entries _adapters holds.
MaxAdapters == 2

RegNames == {"nessus", "qualys", "Qualys"}
FileNames == DOMAIN SuffixLowerTable
FileContents == DOMAIN ContentSignatures \cup {NoStr}
Hints == {NoStr, "NESSUS", "qualys", "Qualys"}
MimeTypes == {NoStr, "text/csv"}

RegInit ==
    /\ adapters = <<>> /\ instances = {}
    /\ regCall = NoValue /\ regOut = NoValue
    /\ FpIdle /\ ItemIdle /\ ParseIdle /\ ReconIdle /\ ImportIdle

\* @AdapterRegistry.register(name) applied to a class (registry.py 38-54).
Register ==
    \E name \in RegNames, adapter_class \in AdapterClasses :
        /\ HasKey(adapters, name) \/ Len(adapters) < MaxAdapters
        /\ adapters' = SetAdapter(adapters, name, adapter_class)
        /\ regCall' = [op |-> "register", name |-> name]
        /\ regOut' = [kind |-> "class", msg |-> "", adapter |-> adapter_class]
        /\ UNCHANGED <<instances, regOthers>>

\* AdapterRegistry.get_adapter(name).
CallGetAdapter ==
    \E name \in RegNames \cup {"NESSUS", "openvas"} :
        LET g == GetAdapter(adapters, instances, name)
        IN  /\ instances' = g.instances
            /\ regCall' = [op |-> "get_adapter", name |-> name]
            /\ regOut' = [kind |-> g.kind, msg |-> g.msg, adapter |-> g.adapter]
            /\ UNCHANGED <<adapters, regOthers>>

\* AdapterRegistry.detect_adapter(filename, file_content, mime_type).
CallDetectAdapter ==
    \E filename \in FileNames, file_content \in FileContents,
       mime_type \in MimeTypes :
        LET d == DetectAdapter(adapters, instances, filename, file_content, mime_type)
        IN  /\ instances' = d.instances
            /\ regCall' = [op |-> "detect_adapter", filename |-> filename,
                           file_content |-> file_content, mime_type |-> mime_type]
            /\ regOut' = [kind |-> d.kind, msg |-> d.msg, adapter |-> d.adapter]
            /\ UNCHANGED <<adapters, regOthers>>

\* get_adapter_for_file(filename, file_content, scanner_hint).
CallGetAdapterForFile ==
    \E filename \in FileNames, file_content \in FileContents,
       scanner_hint \in Hints :
        LET r == GetAdapterForFile(adapters, instances, filename, file_content,
                                   scanner_hint)
        IN  /\ instances' = r.instances
            /\ regCall' = [op |-> "get_adapter_for_file", filename |-> filename,
                           file_content |-> file_content,
                           scanner_hint |-> scanner_hint, before |-> instances]
            /\ regOut' = [kind |-> r.kind, msg |-> r.msg, adapter |-> r.adapter]
            /\ UNCHANGED <<adapters, regOthers>>

\* AdapterRegistry.clear() (registry.py 172-176).
CallClear ==
    /\ adapters' = <<>>
    /\ instances' = {}
    /\ regCall' = [op |-> "clear"]
    /\ regOut' = NoValue
    /\ UNCHANGED regOthers

RegNext ==
    \/ Register
    \/ CallGetAdapter
    \/ CallDetectAdapter
    \/ CallGetAdapterForFile
    \/ CallClear

SpecReg == RegInit /\ [][RegNext]_vars

(***************************************************************************)
(* Claims on the registry                                                  *)
(***************************************************************************)

\* The positions of _adapters whose registered class supports the file by
\* extension, and those whose content sniff matches.
ExtensionMatches(filename) ==
    {i \in 1..Len(adapters) : SupportsFile(adapters[i].cls, filename, NoStr)}
ContentMatches(file_content) ==
    IF file_content = NoStr THEN {}
    ELSE {i \in 1..Len(adapters) : QuickValidate(adapters[i].cls, file_content)}
First(S) == CHOOSE i \in S : \A j \in S : i <= j

\* C10: without a scanner hint, get_adapter_for_file returns the first
\* registered adapter that supports the file by extension; failing that and
\* with content at hand, the first whose content sniff matches; failing both
\* it raises ValueError listing the names of all registered adapters.
C10_DetectionOrder ==
    (regCall # NoValue /\ regCall.op = "get_adapter_for_file"
        /\ regCall.scanner_hint = NoStr) =>
      LET ext == ExtensionMatches(regCall.filename)
          sig == ContentMatches(regCall.file_content)
      IN  IF ext # {}
          THEN regOut.kind = "adapter" /\ regOut.adapter = adapters[First(ext)].cls
          ELSE IF sig # {}
          THEN regOut.kind = "adapter" /\ regOut.adapter = adapters[First(sig)].cls
          ELSE /\ regOut.kind = "raise"
               /\ regOut.msg = NoSuitableMsg(regCall.filename, AdapterKeys(adapters))

\* The registered class a hint names: the key equal to the hint, else the
\* key equal to the lower-cased hint (is_registered).
HintNamesAdapter(scanner_hint) ==
    Truthy(scanner_hint)
        /\ (HasKey(adapters, scanner_hint) \/ HasKey(adapters, Lower(scanner_hint)))
HintedClass(scanner_hint) ==
    IF HasKey(adapters, scanner_hint) THEN ClassOf(adapters, scanner_hint)
    ELSE ClassOf(adapters, Lower(scanner_hint))

\* C11: a hint that names a registered adapter supporting the file gets that
\* adapter back; any other hint gets what the same call without a hint
\* gives.
C11_HintFirst ==
    (regCall # NoValue /\ regCall.op = "get_adapter_for_file"
        /\ Truthy(regCall.scanner_hint)) =>
      IF HintNamesAdapter(regCall.scanner_hint)
            /\ SupportsFile(HintedClass(regCall.scanner_hint), regCall.filename, NoStr)
      THEN regOut.kind = "adapter"
              /\ regOut.adapter = HintedClass(regCall.scanner_hint)
      ELSE LET auto == GetAdapterForFile(adapters, regCall.before, regCall.filename,
                                         regCall.file_content, NoStr)
           IN  /\ regOut.kind = auto.kind
               /\ regOut.msg = auto.msg
               /\ regOut.adapter = auto.adapter

\* A step that is a get_adapter(name) call on a name that is a key of
\* _adapters.
GetOfRegistered ==
    /\ regCall'.op = "get_adapter"
    /\ HasKey(adapters', regCall'.name)

\* C28: get_adapter(name) for a registered name returns an instance of the
\* class most recently registered under that name, also when an instance
\* of a class registered before under the name exists; and calls other than
\* register and clear keep every created instance, get_adapter returning
\* the instance that exists, so repeated calls return the same one.
C28_LatestClassSameInstance ==
    [][/\ GetOfRegistered =>
            /\ regOut'.kind = "adapter"
            /\ regOut'.adapter = ClassOf(adapters', regCall'.name)
       /\ (regCall'.op \notin {"register", "clear"}) =>
            /\ instances \subseteq instances'
            /\ (regCall'.op = "get_adapter" /\ regOut'.kind = "adapter"
                    /\ HasInstance(instances, Lower(regCall'.name))) =>
                  regOut'.adapter = InstanceOf(instances, Lower(regCall'.name))]_vars

(***************************************************************************)
(* Finding reconciliation: ImportServiceOptimized._save_scan_results_batch *)
(* (import_service_optimized.py 521-661).  The tables findings,            *)
(* finding_occurrences and assets are sequences of rows in insertion       *)
(* order; a row's id is its position.  asset_id 0 is NULL.                 *)
(***************************************************************************)

FindingStatuses ==
    {"Open", "In Progress", "Waiting", "Mitigated", "Accepted Risk",
     "False Positive", "Not Observed"}

\* The statuses a reappearing finding is reopened from (line 595).
ReopenStatuses == {"Mitigated", "Accepted Risk", "False Positive", "Not Observed"}

\* summary as it is initialised (lines 530-539).
NewSummary(scan_result) ==
    [assets_created |-> 0, assets_updated |-> 0, findings_created |-> 0,
     findings_updated |-> 0, findings_reopened |-> 0,
     findings_total |-> Len(scan_result.findings)]

\* asset_map.get(identifier) (line 580); 0 stands for None.
AssetIdOf(asset_map, identifier) ==
    IF \E m \in asset_map : m.identifier = identifier
    THEN (CHOOSE m \in asset_map : m.identifier = identifier).id
    ELSE 0

\* seq[i : i + batch_size], with i counted from 0 (lines 544, 575).
Slice(seq, i, batch_size) ==
    SubSeq(seq, i + 1, IF i + batch_size < Len(seq) THEN i + batch_size ELSE Len(seq))

\* One row of the upsert on (workspace_id, identifier): a known identifier
\* keeps its row, a new one is appended.
RECURSIVE UpsertAssets(_, _)
UpsertAssets(assets, batch) ==
    IF batch = <<>> THEN assets
    ELSE LET a == Head(batch)
             known == \E i \in 1..Len(assets) : assets[i].identifier = a
         IN  UpsertAssets(IF known THEN assets
                          ELSE Append(assets, [id |-> Len(assets) + 1, identifier |-> a]),
                          Tail(batch))

AssetRowId(assets, identifier) ==
    CHOOSE i \in 1..Len(assets) : assets[i].identifier = identifier

\* One turn of the asset loop (lines 546-572): the batch is upserted and
\* every returned row is mapped and counted; a failed upsert is logged only.
AssetBatch(st, asset_map, summary, batch, fails) ==
    IF fails THEN [store |-> st, asset_map |-> asset_map, summary |-> summary]
    ELSE LET assets2 == UpsertAssets(st.assets, batch)
         IN  [store |-> [st EXCEPT !.assets = assets2],
              asset_map |->
                  {m \in asset_map : \A i \in 1..Len(batch) : batch[i] # m.identifier}
                  \cup {[identifier |-> batch[i], id |-> AssetRowId(assets2, batch[i])] :
                            i \in 1..Len(batch)},
              summary |-> [summary EXCEPT !.assets_created = @ + Len(batch)]]

\* The rows the lookup by project_id and fingerprint returns (lines 584-586).
ExistingIds(st, project_id, fingerprint) ==
    {i \in 1..Len(st.findings) :
        /\ st.findings[i].project_id = project_id
        /\ st.findings[i].fingerprint = fingerprint}

FirstId(S) == CHOOSE i \in S : \A j \in S : i <= j

\* Variant of ProcessFinding: the update of a found finding also writes
\* first_seen.
ProcessFindingResetsFirstSeen(st, summary, queue, f, project_id, scan_import_id, asset_id, fail, t, t2) ==
    LET ids == ExistingIds(st, project_id, f.fingerprint)
        same == [store |-> st, summary |-> summary, queue |-> queue]
    IN  IF fail = "lookup" THEN same
        ELSE IF ids # {}
        THEN LET id == FirstId(ids)
                 old == st.findings[id]
                 reopen == old.status \in ReopenStatuses
                 sum1 == IF reopen
                         THEN [summary EXCEPT !.findings_reopened = @ + 1]
                         ELSE summary
                 row == IF reopen
                        THEN [old EXCEPT !.last_seen = t, !.status = "Open",
                                         !.is_reopened = TRUE, !.first_seen = t]
                        ELSE [old EXCEPT !.last_seen = t, !.first_seen = t]
                 st1 == [st EXCEPT !.findings[id] = row]
                 sum2 == [sum1 EXCEPT !.findings_updated = @ + 1]
                 st2 == [st1 EXCEPT !.occs = Append(@,
                            [finding_id |-> id, scan_import_id |-> scan_import_id])]
             IN  IF fail = "update" THEN [same EXCEPT !.summary = sum1]
                 ELSE IF fail = "occurrence"
                 THEN [store |-> st1, summary |-> sum2, queue |-> queue]
                 ELSE [store |-> st2, summary |-> sum2, queue |-> queue]
        ELSE [same EXCEPT !.queue = Append(@,
                  [project_id |-> project_id, asset_id |-> asset_id,
                   fingerprint |-> f.fingerprint, first_seen |-> t,
                   last_seen |-> t2, status |-> "Open"])]

\* The body of the finding loop for one raw_finding (lines 580-638).  fail
\* names the database call that raises, "none" when all succeed; t is
\* utcnow() at the writes, t2 the second utcnow() of a new row.
ProcessFinding(st, summary, queue, f, project_id, scan_import_id, asset_id, fail, t, t2) ==
    LET ids == ExistingIds(st, project_id, f.fingerprint)
        same == [store |-> st, summary |-> summary, queue |-> queue]
    IN  IF fail = "lookup" THEN same
        ELSE IF ids # {}
        THEN LET id == FirstId(ids)
                 old == st.findings[id]
                 reopen == old.status \in ReopenStatuses
                 sum1 == IF reopen
                         THEN [summary EXCEPT !.findings_reopened = @ + 1]
                         ELSE summary
                 row == IF reopen
                        THEN [old EXCEPT !.last_seen = t, !.status = "Open",
                                         !.is_reopened = TRUE]
                        ELSE [old EXCEPT !.last_seen = t]
                 st1 == [st EXCEPT !.findings[id] = row]
                 sum2 == [sum1 EXCEPT !.findings_updated = @ + 1]
                 st2 == [st1 EXCEPT !.occs = Append(@,
                            [finding_id |-> id, scan_import_id |-> scan_import_id])]
             IN  IF fail = "update" THEN [same EXCEPT !.summary = sum1]
                 ELSE IF fail = "occurrence"
                 THEN [store |-> st1, summary |-> sum2, queue |-> queue]
                 ELSE [store |-> st2, summary |-> sum2, queue |-> queue]
        ELSE [same EXCEPT !.queue = Append(@,
                  [project_id |-> project_id, asset_id |-> asset_id,
                   fingerprint |-> f.fingerprint, first_seen |-> t,
                   last_seen |-> t2, status |-> "Open"])]

\* Two rows of one insert, or a row and a stored finding, with the same
\* (project_id, fingerprint).
KeyConflict(st, queue) ==
    \/ \E i, j \in 1..Len(queue) :
          /\ i < j
          /\ queue[i].project_id = queue[j].project_id
          /\ queue[i].fingerprint = queue[j].fingerprint
    \/ \E i \in 1..Len(queue) :
          ExistingIds(st, queue[i].project_id, queue[i].fingerprint) # {}

\* The rows as the table stores them: id assigned, is_reopened and
\* reopen_count at their defaults.
RECURSIVE InsertRows(_, _)
InsertRows(findings, queue) ==
    IF queue = <<>> THEN findings
    ELSE InsertRows(
            Append(findings,
                   Head(queue) @@ [id |-> Len(findings) + 1, is_reopened |-> FALSE,
                                   reopen_count |-> 0]),
            Tail(queue))

\* The batch insert at the end of one batch (lines 641-659).  The whole
\* insert is one statement: it fails as a whole when the database call
\* fails or, where the table has a unique key on (project_id, fingerprint),
\* when a row violates it; the failure is logged only.
InsertBatch(st, summary, queue, scan_import_id, fail) ==
    LET same == [store |-> st, summary |-> summary]
        n == Len(st.findings)
        st1 == [st EXCEPT !.findings = InsertRows(@, queue)]
        sum1 == [summary EXCEPT !.findings_created = @ + Len(queue)]
        st2 == [st1 EXCEPT !.occs = @ \o
                   [k \in 1..Len(queue) |->
                       [finding_id |-> n + k, scan_import_id |-> scan_import_id]]]
    IN  IF queue = <<>> THEN same
        ELSE IF fail = "insert" \/ (st.unique_key /\ KeyConflict(st, queue)) THEN same
        ELSE IF fail = "occurrences" THEN [store |-> st1, summary |-> sum1]
        ELSE [store |-> st2, summary |-> sum1]

\* The whole of _save_scan_results_batch when no database call fails, from
\* the pos-th finding on (lines 575-661).
RECURSIVE SaveFindings(_, _, _, _, _, _, _, _, _)
SaveFindings(st, summary, queue, asset_map, scan_result, project_id, scan_import_id, batch_size, pos) ==
    IF pos >= Len(scan_result.findings) THEN [store |-> st, summary |-> summary]
    ELSE LET f == scan_result.findings[pos + 1]
             r == ProcessFinding(st, summary, queue, f, project_id, scan_import_id,
                                 AssetIdOf(asset_map, f.asset_identifier),
                                 "none", 0, 0)
             last == (pos + 1) % batch_size = 0 \/ pos + 1 = Len(scan_result.findings)
             b == InsertBatch(r.store, r.summary, r.queue, scan_import_id, "none")
         IN  IF last
             THEN SaveFindings(b.store, b.summary, <<>>, asset_map, scan_result,
                               project_id, scan_import_id, batch_size, pos + 1)
             ELSE SaveFindings(r.store, r.summary, r.queue, asset_map, scan_result,
                               project_id, scan_import_id, batch_size, pos + 1)

\* The asset loop when no upsert fails, from the apos-th asset on
\* (lines 544-572).
RECURSIVE SaveAssets(_, _, _, _, _, _)
SaveAssets(st, asset_map, summary, assets, batch_size, apos) ==
    IF apos >= Len(assets)
    THEN [store |-> st, asset_map |-> asset_map, summary |-> summary]
    ELSE LET a == AssetBatch(st, asset_map, summary,
                             Slice(assets, apos, batch_size), FALSE)
         IN  SaveAssets(a.store, a.asset_map, a.summary, assets, batch_size,
                        apos + batch_size)

SaveScanResultsBatch(st, project_id, scan_import_id, scan_result, batch_size) ==
    LET a == SaveAssets(st, {}, NewSummary(scan_result), scan_result.assets,
                        batch_size, 0)
    IN  SaveFindings(a.store, a.summary, <<>>, a.asset_map, scan_result,
                     project_id, scan_import_id, batch_size, 0)

(***************************************************************************)
(* SpecRecon: one call of _save_scan_results_batch, database call by       *)
(* database call, on a store that already holds findings                   *)
(***************************************************************************)

\* Most findings of a ScanResult, largest batch_size, most stored findings
\* before the call, most database calls that fail in one call.
MaxFindings == 3
MaxBatchSize == 3
MaxStored == 1
MaxFailures == 1

RawFindings ==
    {[fingerprint |-> "F1", asset_identifier |-> "a1"],
     [fingerprint |-> "F2", asset_identifier |-> "a2"]}

RECURSIVE SeqsUpTo(_, _)
SeqsUpTo(S, n) ==
    IF n = 0 THEN {<<>>}
    ELSE LET shorter == SeqsUpTo(S, n - 1)
         IN  shorter \cup {Append(q, x) : q \in shorter, x \in S}

\* The assets of a ScanResult: the identifiers its findings name, each once,
\* in order of first appearance.
RECURSIVE AssetsOf(_, _)
AssetsOf(findings, seen) ==
    IF findings = <<>> THEN seen
    ELSE AssetsOf(Tail(findings),
                  IF \E i \in 1..Len(seen) : seen[i] = Head(findings).asset_identifier
                  THEN seen ELSE Append(seen, Head(findings).asset_identifier))

ScanResults ==
    {[findings |-> fs, assets |-> AssetsOf(fs, <<>>)] :
        fs \in SeqsUpTo(RawFindings, MaxFindings)}

\* A finding stored by an earlier import.
StoredRows ==
    {[id |-> 1, project_id |-> "p1", fingerprint |-> "F1", status |-> st,
      is_reopened |-> rc > 0, reopen_count |-> rc, first_seen |-> 0,
      last_seen |-> 0, asset_id |-> 1] :
        st \in FindingStatuses, rc \in {0, 1}}
    \cup {[id |-> 1, project_id |-> "p2", fingerprint |-> "F1",
           status |-> "Mitigated", is_reopened |-> FALSE, reopen_count |-> 0,
           first_seen |-> 0, last_seen |-> 0, asset_id |-> 1]}

RECURSIVE Renumber(_, _)
Renumber(rows, n) ==
    IF rows = <<>> THEN <<>>
    ELSE <<[Head(rows) EXCEPT !.id = n]>> \o Renumber(Tail(rows), n + 1)

Stores ==
    {[findings |-> Renumber(rows, 1),
      occs |-> [k \in 1..Len(rows) |-> [finding_id |-> k, scan_import_id |-> "imp0"]],
      assets |-> IF rows = <<>> THEN <<>> ELSE <<[id |-> 1, identifier |-> "a1"]>>,
      unique_key |-> u] :
        rows \in {q \in SeqsUpTo(StoredRows, MaxStored) :
                    \A i, j \in 1..Len(q) :
                        i # j => q[i].project_id # q[j].project_id},
        u \in BOOLEAN}

ReconInit ==
    /\ store \in Stores
    /\ run = NoValue /\ reconPc = "idle" /\ lastMatch = NoValue /\ clock = 0
    /\ FpIdle /\ ItemIdle /\ ParseIdle /\ RegIdle /\ ImportIdle

\* _save_scan_results_batch is entered (lines 521-541).
ReconBegin ==
    /\ reconPc = "idle"
    /\ \E scan_result \in ScanResults, batch_size \in 1..MaxBatchSize :
          run' = [project_id |-> "p1", scan_import_id |-> "imp1",
                  scan_result |-> scan_result, batch_size |-> batch_size,
                  apos |-> 0, pos |-> 0, pending |-> FALSE, queue |-> <<>>,
                  asset_map |-> {}, summary |-> NewSummary(scan_result),
                  start |-> store, failures |-> 0, reopened |-> {},
                  diff |-> NoValue]
    /\ reconPc' = "running"
    /\ UNCHANGED <<store, lastMatch, clock, reconOthers>>

\* One batch of the asset loop (lines 546-572).
ReconAssetBatch ==
    /\ reconPc = "running" /\ run.apos < Len(run.scan_result.assets)
    /\ \E fails \in BOOLEAN :
          /\ fails => run.failures < MaxFailures
          /\ LET a == AssetBatch(store, run.asset_map, run.summary,
                                 Slice(run.scan_result.assets, run.apos, run.batch_size),
                                 fails)
             IN  /\ store' = a.store
                 /\ run' = [run EXCEPT !.asset_map = a.asset_map,
                                       !.summary = a.summary,
                                       !.apos = @ + run.batch_size,
                                       !.failures = IF fails THEN @ + 1 ELSE @]
    /\ UNCHANGED <<reconPc, lastMatch, clock, reconOthers>>

\* One raw_finding of the finding loop (lines 579-638).
ReconFinding ==
    /\ reconPc = "running"
    /\ run.apos >= Len(run.scan_result.assets)
    /\ run.pos < Len(run.scan_result.findings) /\ ~run.pending
    /\ LET f == run.scan_result.findings[run.pos + 1]
           ids == ExistingIds(store, run.project_id, f.fingerprint)
           t == clock + 1
       IN  \E fail \in {"none", "lookup", "update", "occurrence"}, d \in {0, 1} :
              /\ fail # "none" => run.failures < MaxFailures
              /\ ids = {} => fail \in {"none", "lookup"}
              /\ (ids # {} \/ fail = "lookup") => d = 0
              /\ LET r == ProcessFinding(store, run.summary, run.queue, f,
                              run.project_id, run.scan_import_id,
                              AssetIdOf(run.asset_map, f.asset_identifier),
                              fail, t, t + d)
                 IN  /\ store' = r.store
                     /\ run' = [run EXCEPT
                            !.summary = r.summary,
                            !.queue = r.queue,
                            !.pos = @ + 1,
                            !.pending = \/ (run.pos + 1) % run.batch_size = 0
                                        \/ run.pos + 1 = Len(run.scan_result.findings),
                            !.failures = IF fail # "none" THEN @ + 1 ELSE @,
                            !.reopened =
                                IF /\ ids # {} /\ fail \in {"none", "occurrence"}
                                   /\ store.findings[FirstId(ids)].status
                                          \in ReopenStatuses
                                THEN @ \cup {FirstId(ids)} ELSE @]
                     /\ lastMatch' =
                            IF ids # {} /\ fail \in {"none", "occurrence"}
                            THEN [before |-> store.findings[FirstId(ids)],
                                  after |-> r.store.findings[FirstId(ids)]]
                            ELSE NoValue
              /\ clock' = t + d
    /\ UNCHANGED <<reconPc, reconOthers>>

\* The batch insert that ends a batch (lines 641-659).
ReconInsertBatch ==
    /\ reconPc = "running" /\ run.pending
    /\ \E fail \in {"none", "insert", "occurrences"} :
          /\ fail # "none" => (run.queue # <<>> /\ run.failures < MaxFailures)
          /\ LET b == InsertBatch(store, run.summary, run.queue,
                                  run.scan_import_id, fail)
             IN  /\ store' = b.store
                 /\ run' = [run EXCEPT !.summary = b.summary,
                                       !.queue = <<>>,
                                       !.pending = FALSE,
                                       !.failures = IF fail # "none" THEN @ + 1 ELSE @]
    /\ UNCHANGED <<reconPc, lastMatch, clock, reconOthers>>

\* return summary (line 661).
ReconReturn ==
    /\ reconPc = "running"
    /\ run.apos >= Len(run.scan_result.assets)
    /\ run.pos = Len(run.scan_result.findings) /\ ~run.pending
    /\ reconPc' = "done"
    /\ UNCHANGED <<store, run, lastMatch, clock, reconOthers>>

\* The diff of a scan against the scan before it in the project, as the
\* database functions behind get_scan_diff and get_scan_diff_summary
\* compute it.  The stored findings an import observed are those it has an
\* occurrence for; reopened holds the findings the target import moved back
\* to Open.
ObservedIn(st, project_id, scan_id) ==
    {st.occs[k].finding_id : k \in {j \in 1..Len(st.occs) :
        /\ st.occs[j].scan_import_id = scan_id
        /\ st.findings[st.occs[j].finding_id].project_id = project_id}}

\* The import before scan_id in the project, NoStr when there is none.
PreviousScan(st, project_id, scan_id) ==
    IF scan_id = "imp1" /\ ObservedIn(st, project_id, "imp0") # {}
    THEN "imp0" ELSE NoStr

DiffReopened(in_target, in_previous, reopened) == in_target \cap reopened

DiffNew(in_target, in_previous, reopened) ==
    (in_target \ in_previous) \ reopened

DiffResolved(in_target, in_previous, reopened) == in_previous \ in_target

\* Variant of DiffPersistent: every finding observed by both imports.
DiffPersistentInBoth(in_target, in_previous, reopened) ==
    in_target \cap in_previous

DiffPersistent(in_target, in_previous, reopened) ==
    (in_target \cap in_previous) \ reopened

GetScanDiff(st, project_id, scan_id, reopened) ==
    LET previous == PreviousScan(st, project_id, scan_id)
        t == ObservedIn(st, project_id, scan_id)
        q == IF previous = NoStr THEN {} ELSE ObservedIn(st, project_id, previous)
        new == DiffNew(t, q, reopened)
        resolved == DiffResolved(t, q, reopened)
        persistent == DiffPersistent(t, q, reopened)
        again == DiffReopened(t, q, reopened)
    IN  [scan_id |-> scan_id, previous_scan_id |-> previous,
         new_findings |-> new, resolved_findings |-> resolved,
         persistent_findings |-> persistent, reopened_findings |-> again,
         summary |-> [new |-> Cardinality(new), resolved |-> Cardinality(resolved),
                      persistent |-> Cardinality(persistent),
                      reopened |-> Cardinality(again)]]

\* get_scan_diff for the import that has just ended (import_service.py
\* 699-717).
ReconDiff ==
    /\ reconPc = "done"
    /\ reconPc' = "diffed"
    /\ run' = [run EXCEPT !.diff = GetScanDiff(store, run.project_id,
                                               run.scan_import_id, run.reopened)]
    /\ UNCHANGED <<store, lastMatch, clock, reconOthers>>

ReconNext ==
    \/ ReconBegin
    \/ ReconAssetBatch
    \/ ReconFinding
    \/ ReconInsertBatch
    \/ ReconReturn
    \/ ReconDiff

SpecRecon == ReconInit /\ [][ReconNext]_vars

(***************************************************************************)
(* SpecRace: two imports into project p1 reconcile at the same time, each  *)
(* in its own worker process, against the same database.  Inside one       *)
(* process _save_scan_results_batch never awaits, so the interleaving is   *)
(* that of the database calls of two processes.  run is the pair of the    *)
(* two calls' locals; the store starts without findings.                   *)
(***************************************************************************)

\* Most findings in the ScanResult of a racing import.
MaxRaceFindings == 2

Racers == {1, 2}

\* ScanResults whose findings have distinct fingerprints.
RaceResults ==
    {[findings |-> fs, assets |-> AssetsOf(fs, <<>>)] :
        fs \in {q \in SeqsUpTo(RawFindings, MaxRaceFindings) :
                    /\ q # <<>>
                    /\ \A i, j \in 1..Len(q) :
                          i # j => q[i].fingerprint # q[j].fingerprint}}

RaceLocals(w, scan_result, batch_size) ==
    [project_id |-> "p1", scan_import_id |-> IF w = 1 THEN "imp1" ELSE "imp2",
     scan_result |-> scan_result, batch_size |-> batch_size,
     apos |-> 0, pos |-> 0, pending |-> FALSE, queue |-> <<>>,
     asset_map |-> {}, summary |-> NewSummary(scan_result),
     pc |-> "running", overlapped |-> FALSE]

RaceInit ==
    /\ \E u \in BOOLEAN :
          store = [findings |-> <<>>, occs |-> <<>>, assets |-> <<>>,
                   unique_key |-> u]
    /\ \E r1, r2 \in RaceResults, b1, b2 \in 1..MaxRaceFindings :
          run = <<RaceLocals(1, r1, b1), RaceLocals(2, r2, b2)>>
    /\ reconPc = "race" /\ lastMatch = NoValue /\ clock = 0
    /\ FpIdle /\ ItemIdle /\ ParseIdle /\ RegIdle /\ ImportIdle

Other(w) == 3 - w

\* The other call is between its first and its last database call.
Underway(w) ==
    /\ run[Other(w)].pc = "running"
    /\ run[Other(w)].apos > 0

\* One batch of the asset loop of call w (lines 546-572).
RaceAssetBatch ==
    \E w \in Racers :
        LET r == run[w]
            a == AssetBatch(store, r.asset_map, r.summary,
                            Slice(r.scan_result.assets, r.apos, r.batch_size), FALSE)
        IN  /\ r.pc = "running" /\ r.apos < Len(r.scan_result.assets)
            /\ store' = a.store
            /\ run' = [run EXCEPT ![w] =
                   [r EXCEPT !.asset_map = a.asset_map, !.summary = a.summary,
                             !.apos = @ + r.batch_size,
                             !.overlapped = @ \/ Underway(w)]]
            /\ UNCHANGED <<reconPc, lastMatch, clock, reconOthers>>

\* One raw_finding of the finding loop of call w (lines 579-638).
RaceFinding ==
    \E w \in Racers :
        LET r == run[w]
            f == r.scan_result.findings[r.pos + 1]
            t == clock + 1
            x == ProcessFinding(store, r.summary, r.queue, f, r.project_id,
                                r.scan_import_id,
                                AssetIdOf(r.asset_map, f.asset_identifier),
                                "none", t, t)
        IN  /\ r.pc = "running" /\ r.apos >= Len(r.scan_result.assets)
            /\ r.pos < Len(r.scan_result.findings) /\ ~r.pending
            /\ store' = x.store
            /\ run' = [run EXCEPT ![w] =
                   [r EXCEPT !.summary = x.summary, !.queue = x.queue,
                             !.pos = @ + 1,
                             !.pending = \/ (r.pos + 1) % r.batch_size = 0
                                         \/ r.pos + 1 = Len(r.scan_result.findings),
                             !.overlapped = @ \/ Underway(w)]]
            /\ clock' = t
            /\ UNCHANGED <<reconPc, lastMatch, reconOthers>>

\* The batch insert that ends a batch of call w (lines 641-659).
RaceInsertBatch ==
    \E w \in Racers :
        LET r == run[w]
            b == InsertBatch(store, r.summary, r.queue, r.scan_import_id, "none")
        IN  /\ r.pc = "running" /\ r.pending
            /\ store' = b.store
            /\ run' = [run EXCEPT ![w] =
                   [r EXCEPT !.summary = b.summary, !.queue = <<>>,
                             !.pending = FALSE,
                             !.overlapped = @ \/ Underway(w)]]
            /\ UNCHANGED <<reconPc, lastMatch, clock, reconOthers>>

\* Call w returns its summary (line 661).
RaceReturn ==
    \E w \in Racers :
        LET r == run[w]
        IN  /\ r.pc = "running" /\ r.apos >= Len(r.scan_result.assets)
            /\ r.pos = Len(r.scan_result.findings) /\ ~r.pending
            /\ run' = [run EXCEPT ![w] = [r EXCEPT !.pc = "done"]]
            /\ UNCHANGED <<store, reconPc, lastMatch, clock, reconOthers>>

RaceNext ==
    \/ RaceAssetBatch
    \/ RaceFinding
    \/ RaceInsertBatch
    \/ RaceReturn

SpecRace == RaceInit /\ [][RaceNext]_vars

(***************************************************************************)
(* Claims on reconciliation                                                *)
(***************************************************************************)

\* C1: a stored finding matched in a reopen status ends Open, with
\* is_reopened set and reopen_count one higher; one matched while Open
\* changes in last_seen only.
C1_ReopenTransition ==
    lastMatch # NoValue =>
        /\ lastMatch.before.status \in ReopenStatuses =>
              /\ lastMatch.after.status = "Open"
              /\ lastMatch.after.is_reopened
              /\ lastMatch.after.reopen_count = lastMatch.before.reopen_count + 1
        /\ lastMatch.before.status = "Open" =>
              lastMatch.after = [lastMatch.before EXCEPT
                                    !.last_seen = lastMatch.after.last_seen]

\* How often each value occurs in a sequence.
BagOf(seq) ==
    [x \in {seq[i] : i \in 1..Len(seq)} |->
        Cardinality({i \in 1..Len(seq) : seq[i] = x})]

\* The stored state without its timestamps and row ids: the findings with
\* their asset links, and per occurrence the finding it belongs to.
Untimed(st) ==
    LET key(i) == [project_id |-> st.findings[i].project_id,
                   fingerprint |-> st.findings[i].fingerprint]
    IN  [findings |-> BagOf([i \in 1..Len(st.findings) |->
                          [project_id |-> st.findings[i].project_id,
                           fingerprint |-> st.findings[i].fingerprint,
                           status |-> st.findings[i].status,
                           is_reopened |-> st.findings[i].is_reopened,
                           reopen_count |-> st.findings[i].reopen_count,
                           asset_id |-> st.findings[i].asset_id]]),
         occs |-> BagOf([k \in 1..Len(st.occs) |->
                      [finding |-> key(st.occs[k].finding_id),
                       scan_import_id |-> st.occs[k].scan_import_id]])]

\* C3: a call in which no database call fails ends in the stored findings,
\* occurrences, counts and asset links that the same call with all findings
\* in one batch ends in.
C3_BatchSizeEquivalence ==
    (reconPc = "done" /\ run.failures = 0) =>
        LET n == Len(run.scan_result.findings)
            whole == SaveScanResultsBatch(run.start, run.project_id,
                         run.scan_import_id, run.scan_result,
                         IF n = 0 THEN 1 ELSE n)
        IN  /\ Untimed(store) = Untimed(whole.store)
            /\ run.summary = whole.summary

\* The findings an import or the import before it observed.
Touched(d) ==
    ObservedIn(store, run.project_id, d.scan_id)
        \cup (IF d.previous_scan_id = NoStr THEN {}
              ELSE ObservedIn(store, run.project_id, d.previous_scan_id))

ReconEnded == reconPc \in {"done", "diffed"}

\* The fingerprints of the parsed findings of the call, and how many parsed
\* findings carry one of them.
ParsedFingerprints ==
    {run.scan_result.findings[k].fingerprint :
        k \in 1..Len(run.scan_result.findings)}
ParsedWith(fp) ==
    Cardinality({k \in 1..Len(run.scan_result.findings) :
                    run.scan_result.findings[k].fingerprint = fp})

\* The stored findings of the fingerprint the call created, and the
\* occurrences that link a finding of the fingerprint to the call's import.
CreatedFor(fp) ==
    {i \in ExistingIds(store, run.project_id, fp) : i > Len(run.start.findings)}
OccurrencesFor(fp) ==
    {k \in 1..Len(store.occs) :
        /\ store.occs[k].scan_import_id = run.scan_import_id
        /\ store.occs[k].finding_id \in ExistingIds(store, run.project_id, fp)}

CreatedOnce(fp) ==
    IF ExistingIds(run.start, run.project_id, fp) = {}
    THEN /\ Cardinality(CreatedFor(fp)) = 1
         /\ \A i \in CreatedFor(fp) : store.findings[i].status = "Open"
    ELSE CreatedFor(fp) = {}

\* A created finding no later parsed finding touched again.
SeenOnceAtCreation(fp) ==
    ParsedWith(fp) = 1 =>
        \A i \in CreatedFor(fp) :
            store.findings[i].first_seen = store.findings[i].last_seen

OneOccurrenceEach(fp) ==
    Cardinality(OccurrencesFor(fp)) = ParsedWith(fp)

\* C23: when the call has returned, a fingerprint that was not stored in the
\* project has exactly one stored finding, created Open with first_seen
\* equal to last_seen, and every parsed finding has added exactly one
\* occurrence that links its stored finding to the import.
C23_CreateOnceOneOccurrence ==
    ReconEnded =>
        \A fp \in ParsedFingerprints :
            CreatedOnce(fp) /\ SeenOnceAtCreation(fp) /\ OneOccurrenceEach(fp)

\* The fields of a stored finding reconciliation never writes.
Kept(row) ==
    [id |-> row.id, project_id |-> row.project_id, fingerprint |-> row.fingerprint,
     first_seen |-> row.first_seen, asset_id |-> row.asset_id]

\* C24: a step of reconciliation changes at most one stored finding, the
\* one with the fingerprint of the parsed finding at hand, and of it only
\* last_seen, status, is_reopened and reopen_count; a finding that is Open,
\* In Progress or Waiting keeps its status; stored findings and occurrences
\* are never removed.
C24_UpdateFrame ==
    [][(store # NoValue /\ store' # NoValue) =>
          /\ Len(store'.findings) >= Len(store.findings)
          /\ Len(store'.occs) >= Len(store.occs)
          /\ SubSeq(store'.occs, 1, Len(store.occs)) = store.occs
          /\ \A i \in 1..Len(store.findings) :
                /\ Kept(store'.findings[i]) = Kept(store.findings[i])
                /\ store.findings[i].status \in {"Open", "In Progress", "Waiting"}
                      => store'.findings[i].status = store.findings[i].status
                /\ store'.findings[i] # store.findings[i] =>
                      /\ run.pos < Len(run.scan_result.findings)
                      /\ store.findings[i].fingerprint =
                            run.scan_result.findings[run.pos + 1].fingerprint
                      /\ store.findings[i].project_id = run.project_id
                      /\ \A j \in 1..Len(store.findings) :
                            j # i => store'.findings[j] = store.findings[j]]_vars

\* C24 witness: a stored finding in status In Progress was found again and
\* got a new last_seen.
C24_Witness ==
    /\ lastMatch # NoValue
    /\ lastMatch.before.status = "In Progress"
    /\ lastMatch.after.last_seen # lastMatch.before.last_seen

\* The fingerprints both racing imports carry.
SharedFingerprints ==
    {run[1].scan_result.findings[k].fingerprint :
        k \in 1..Len(run[1].scan_result.findings)}
    \cap {run[2].scan_result.findings[k].fingerprint :
              k \in 1..Len(run[2].scan_result.findings)}

\* The occurrences that link stored finding i to the import of call w.
LinksTo(i, w) ==
    {k \in 1..Len(store.occs) :
        /\ store.occs[k].finding_id = i
        /\ store.occs[k].scan_import_id = run[w].scan_import_id}

\* C26: when both concurrent imports have ended, each fingerprint they
\* share has exactly one stored finding in the project, and that finding
\* has one occurrence for each of the two imports.
C26_OneFindingAfterRace ==
    (reconPc = "race" /\ run[1].pc = "done" /\ run[2].pc = "done") =>
        \A fp \in SharedFingerprints :
            LET ids == ExistingIds(store, "p1", fp)
            IN  /\ Cardinality(ids) = 1
                /\ \A i \in ids, w \in Racers : Cardinality(LinksTo(i, w)) = 1

(***************************************************************************)
(* The import workflows: ImportService.process_scan (import_service.py)    *)
(* and ImportServiceOptimized.process_scan_v1/v2/v3                        *)
(* (import_service_optimized.py).  All uploads go to one workspace and     *)
(* carry the same bytes, so the same SHA-256.  Reconciliation is one step  *)
(* here; SpecRecon has its database calls.                                 *)
(***************************************************************************)

BATCH_THRESHOLD == 10
BATCH_SIZE == 1000

\* Most uploads in one behaviour.
MaxUploads == 2

ProcIds == 1..MaxUploads
Workflows == {"process_scan", "v1", "v2", "v3"}
Projects == {"p1", NoStr}
FileHash == "h1"

\* total_findings of the parsed ScanResult: the largest count of single
\* mode, the smallest of batch mode, one full batch, a full batch and one
\* more finding.
FindingCounts == {BATCH_THRESHOLD, BATCH_THRESHOLD + 1, BATCH_SIZE, BATCH_SIZE + 1}

\* The choice at import_service.py 114-142.
ProcessingMode(total_findings) ==
    IF total_findings > BATCH_THRESHOLD THEN "batch" ELSE "single"

\* Variant of BatchFindings: the slice takes one finding too many.
BatchFindingsOneMore(n, i) ==
    [lo |-> i + 1, hi |-> IF i + BATCH_SIZE + 1 < n THEN i + BATCH_SIZE + 1 ELSE n]

\* findings[i:i + BATCH_SIZE] (line 398), as the positions lo..hi of the
\* n findings, counted from 1.
BatchFindings(n, i) ==
    [lo |-> i + 1, hi |-> IF i + BATCH_SIZE < n THEN i + BATCH_SIZE ELSE n]

\* batch_assets (line 405): the serialized asset list or [].
BatchAssets(i) == IF i = 0 THEN "assets_json" ELSE "[]"

IdleProc ==
    [pc |-> "idle", wf |-> "", project_id |-> NoStr, force_upload |-> FALSE,
     outcome |-> "", import_id |-> 0, blob |-> 0, parse_failed |-> FALSE,
     recon_failed |-> FALSE, dup_existed |-> FALSE, dup_failed |-> FALSE,
     n |-> 0,
     batch_number |-> 0, error |-> "", scanner |-> "", extra |-> NoValue,
     parse_called |-> FALSE, blob_at_parse |-> FALSE, status_at_parse |-> "",
     committed |-> 0, failed_batch |-> 0, finalize_called |-> FALSE,
     mode |-> "", batches |-> <<>>]

\* The upload's filename, and the scanner_name of the adapters
\* get_adapter_for_file can resolve.
Filename == "scan.nessus"
ScannerNames == {NessusAdapter.scanner_name, QualysAdapter.scanner_name}

\* Variants of Steps: the bytes are stored before the duplicate check; the
\* bytes are stored before the adapter is resolved and validated.
StepsUploadFirst(wf) ==
    IF wf \in {"v1", "v2"}
    THEN <<"upload", "dupcheck", "detect", "create", "parse">>
    ELSE <<"upload", "dupcheck", "detect", "parse">>
StepsValidateAfterUpload(wf) ==
    IF wf \in {"v1", "v2"}
    THEN <<"dupcheck", "upload", "detect", "create", "parse">>
    ELSE <<"dupcheck", "upload", "detect", "parse">>

\* The steps of an entry point from the duplicate check to adapter.parse,
\* in the order of the code: process_scan and v3 have no import record
\* before parse, v1 and v2 create it after the upload.
Steps(wf) ==
    IF wf \in {"v1", "v2"}
    THEN <<"dupcheck", "detect", "upload", "create", "parse">>
    ELSE <<"dupcheck", "detect", "upload", "parse">>

StepAfter(wf, pc) ==
    LET s == Steps(wf)
        i == CHOOSE j \in 1..Len(s) : s[j] = pc
    IN  s[i + 1]

\* core.exceptions.RPCError (exceptions.py 107-116); detail NoStr is None.
RPCError(function, detail) ==
    [error_code |-> "RPC_ERROR",
     detail |-> IF Truthy(detail) THEN detail ELSE "Error calling " \o function,
     extra |-> [function |-> function]]

\* batch_result.get('error', 'Batch failed') (import_service.py 430): the
\* text the database function answers with, NoStr when it gives none.
BatchErrors == {NoStr, "deadlock detected"}
DictGet(value, default) == IF value = NoStr THEN default ELSE value

\* core.exceptions.ParseError (exceptions.py 75-92).
ParseError(detail, scanner, filename) ==
    [error_code |-> "PARSE_ERROR", detail |-> detail,
     extra |-> [scanner |-> scanner, filename |-> filename]]

\* Variant of CheckDuplicateServiceRole: only records of finished imports
\* count as duplicates.
CheckDuplicateProcessedOnly(tbl, project_id, file_hash, fails) ==
    IF fails THEN FALSE
    ELSE \E i \in 1..Len(tbl) :
            /\ tbl[i].project_id = project_id /\ tbl[i].file_hash = file_hash
            /\ tbl[i].status = "processed"

\* ImportServiceOptimized._check_duplicate_service_role (lines 462-470): a
\* lookup that raises answers False.
CheckDuplicateServiceRole(tbl, project_id, file_hash, fails) ==
    IF fails THEN FALSE
    ELSE \E i \in 1..Len(tbl) :
            tbl[i].project_id = project_id /\ tbl[i].file_hash = file_hash

\* ImportService._check_duplicate (import_service.py 623-647).
CheckDuplicate(tbl, file_hash, project_id, fails) ==
    IF fails THEN FALSE
    ELSE \E i \in 1..Len(tbl) :
            /\ tbl[i].file_hash = file_hash
            /\ Truthy(project_id) => tbl[i].project_id = project_id

\* The row _create_scan_import_service_role inserts (lines 504-515);
\* findings_total -1 is NULL.
NewImport(tbl, project_id, file_hash, status) ==
    [id |-> Len(tbl) + 1, project_id |-> project_id, file_hash |-> file_hash,
     status |-> status, error_message |-> "", findings_total |-> -1,
     has_bounds |-> FALSE]

\* _update_scan_import_status_service_role (lines 663-691): summary_n is
\* summary["findings_total"], -1 when no summary is passed.
UpdateScanImportStatus(tbl, id, status, summary_n, with_result, error_message) ==
    [tbl EXCEPT ![id] =
        [@ EXCEPT !.status = status,
                  !.error_message = IF error_message # "" THEN error_message ELSE @,
                  !.findings_total = IF summary_n >= 0 THEN summary_n ELSE @,
                  !.has_bounds = IF with_result THEN TRUE ELSE @]]

\* The caller gets an exception, or a result.
Raised(pr, exc) == [pr EXCEPT !.pc = "done", !.outcome = exc]
Returned(pr, status) == [pr EXCEPT !.pc = "done", !.outcome = status]

Optimized(pr) == pr.wf \in {"v1", "v2", "v3"}

ImportInit ==
    /\ imports = <<>> /\ blobs = {}
    /\ procs = [p \in ProcIds |-> IdleProc]
    /\ FpIdle /\ ItemIdle /\ ParseIdle /\ RegIdle /\ ReconIdle

\* An entry point is called.  The optimized workflows first authenticate
\* the token and check the membership (lines 62-68); process_scan has no
\* force_upload parameter.
ImpBegin ==
    \E p \in ProcIds, wf \in Workflows, project_id \in Projects,
       force_upload \in BOOLEAN, allowed \in BOOLEAN :
        /\ procs[p].pc = "idle"
        /\ \A q \in ProcIds : q < p => procs[q].pc # "idle"
        /\ wf = "process_scan" => (~force_upload /\ allowed)
        /\ procs' = [procs EXCEPT ![p] =
              IF allowed
              THEN [IdleProc EXCEPT !.pc = Steps(wf)[1], !.wf = wf,
                                    !.project_id = project_id,
                                    !.force_upload = force_upload]
              ELSE Raised([IdleProc EXCEPT !.wf = wf, !.project_id = project_id,
                                           !.force_upload = force_upload],
                          "ValidationError")]
        /\ UNCHANGED <<imports, blobs, importOthers>>

\* The duplicate check (import_service.py 81-85; optimized 75-78, 189-192,
\* 329-332).  dup_existed remembers whether a record of the same project
\* and hash existed when the check ran, dup_failed whether the lookup
\* raised.  A lookup that raises with no record to find answers False as a
\* lookup that succeeds does, so the raising lookup is drawn only where
\* there is a record to miss.
ImpCheckDuplicate ==
    \E p \in ProcIds, fails \in BOOLEAN :
        LET pr == procs[p]
            existed == \E i \in 1..Len(imports) :
                          /\ imports[i].project_id = pr.project_id
                          /\ imports[i].file_hash = FileHash
            checked == IF Optimized(pr)
                       THEN ~pr.force_upload /\ Truthy(pr.project_id)
                       ELSE TRUE
            dup == IF Optimized(pr)
                   THEN CheckDuplicateServiceRole(imports, pr.project_id, FileHash, fails)
                   ELSE CheckDuplicate(imports, FileHash, pr.project_id, fails)
            seen == [pr EXCEPT !.dup_existed = existed, !.dup_failed = fails]
        IN  /\ pr.pc = "dupcheck"
            /\ fails => (checked /\ existed)
            /\ procs' = [procs EXCEPT ![p] =
                  IF checked /\ dup THEN Raised(seen, "DuplicateError")
                  ELSE [seen EXCEPT !.pc = StepAfter(pr.wf, "dupcheck")]]
            /\ UNCHANGED <<imports, blobs, importOthers>>

\* get_adapter_for_file and adapter.validate (import_service.py 88-97;
\* optimized 81-84).
\* scanner is adapter.scanner_name; the record of the upload keeps it
\* only for the rejected file, no later step of the model reads it.
ImpDetect ==
    \E p \in ProcIds, res \in {"ok", "no_adapter", "invalid"},
       scanner \in ScannerNames :
        LET pr == procs[p]
            found == [pr EXCEPT !.scanner = scanner]
        IN
        /\ pr.pc = "detect"
        /\ procs' = [procs EXCEPT ![p] =
              CASE res = "ok" -> [pr EXCEPT !.pc = StepAfter(pr.wf, "detect")]
                [] res = "no_adapter" -> Raised(pr, "ValueError")
                [] res = "invalid" ->
                     Raised([found EXCEPT !.extra =
                                ParseError("Invalid " \o scanner \o " file format",
                                           scanner, Filename).extra],
                            "ParseError")]
        /\ UNCHANGED <<imports, blobs, importOthers>>

\* _upload_to_storage (import_service.py 649-671; optimized 472-487).
ImpUpload ==
    \E p \in ProcIds, fails \in BOOLEAN :
        /\ procs[p].pc = "upload"
        /\ IF fails
           THEN /\ procs' = [procs EXCEPT ![p] = Raised(@, "StorageError")]
                /\ UNCHANGED blobs
           ELSE /\ blobs' = blobs \cup {p}
                /\ procs' = [procs EXCEPT ![p] =
                      [@ EXCEPT !.blob = p,
                                !.pc = StepAfter(procs[p].wf, "upload")]]
        /\ UNCHANGED <<imports, importOthers>>

\* _create_scan_import_service_role (optimized 90-100, 204-215, 489-519).
\* In v2 the caller gets "queued" and the rest runs as a background task.
ImpCreateRecord ==
    \E p \in ProcIds, fails \in BOOLEAN :
        LET pr == procs[p]
            status == IF pr.wf = "v2" THEN "queued" ELSE "processing"
        IN  /\ pr.pc = "create"
            /\ IF fails
               THEN /\ procs' = [procs EXCEPT ![p] = Raised(pr, "RPCError")]
                    /\ UNCHANGED imports
               ELSE /\ imports' = Append(imports,
                           NewImport(imports, pr.project_id, FileHash, status))
                    /\ procs' = [procs EXCEPT ![p] =
                          [pr EXCEPT !.import_id = Len(imports) + 1,
                                     !.pc = StepAfter(pr.wf, "create"),
                                     !.outcome = IF pr.wf = "v2" THEN "queued" ELSE ""]]
            /\ UNCHANGED <<blobs, importOthers>>

\* adapter.parse (import_service.py 107; optimized 106, 223, 345).
\* parse_called, blob_at_parse and status_at_parse remember what existed when
\* parse was called.
\* Only process_scan branches on the count of findings; the optimized
\* workflows store it, and two counts are drawn for them.
ImpParse ==
    \E p \in ProcIds, ok \in BOOLEAN, n \in FindingCounts :
        LET at == procs[p]
            pr == [at EXCEPT !.parse_called = TRUE,
                             !.blob_at_parse = at.blob \in blobs,
                             !.status_at_parse =
                                 IF at.import_id = 0 THEN ""
                                 ELSE imports[at.import_id].status]
            failed == [pr EXCEPT !.parse_failed = TRUE, !.error = "ParseError"]
        IN  /\ pr.pc = "parse"
            /\ ~ok => n = BATCH_THRESHOLD
            /\ Optimized(at) => n \in {BATCH_THRESHOLD, BATCH_THRESHOLD + 1}
            /\ procs' = [procs EXCEPT ![p] =
                  IF ok
                  THEN [pr EXCEPT !.n = n,
                           !.mode = IF pr.wf = "process_scan"
                                    THEN ProcessingMode(n) ELSE @,
                           !.pc = CASE pr.wf \in {"v1", "v2"} -> "save"
                                    [] pr.wf = "v3" -> "rpc"
                                    [] OTHER -> IF ProcessingMode(n) = "batch"
                                                THEN "create_record" ELSE "single"]
                  ELSE CASE pr.wf \in {"v1", "v2"} -> [failed EXCEPT !.pc = "fail"]
                         [] pr.wf = "v3" -> Raised(failed, "ParseError")
                         [] OTHER -> [failed EXCEPT !.pc = "cleanup"]]
            /\ UNCHANGED <<imports, blobs, importOthers>>

\* _save_scan_results_batch as called by v1 and v2 (optimized 109-115,
\* 224-230): it returns its summary also when database calls inside it
\* failed, since each of them is caught and logged (571-572, 637-638,
\* 658-659).
ImpSave ==
    \E p \in ProcIds, db_failed \in BOOLEAN :
        /\ procs[p].pc = "save"
        /\ procs' = [procs EXCEPT ![p] =
              [@ EXCEPT !.recon_failed = db_failed, !.pc = "mark"]]
        /\ UNCHANGED <<imports, blobs, importOthers>>

\* The update to "processed" (optimized 118-123, 231-236); when it raises,
\* the except branch is entered.
ImpMarkProcessed ==
    \E p \in ProcIds, fails \in BOOLEAN :
        LET pr == procs[p]
        IN  /\ pr.pc = "mark"
            /\ IF fails
               THEN /\ procs' = [procs EXCEPT ![p] =
                          [pr EXCEPT !.pc = "fail", !.error = "StatusUpdateError"]]
                    /\ UNCHANGED imports
               ELSE /\ imports' = UpdateScanImportStatus(imports, pr.import_id,
                                      "processed", pr.n, TRUE, "")
                    /\ procs' = [procs EXCEPT ![p] =
                          IF pr.wf = "v1" THEN Returned(pr, "processed")
                          ELSE [pr EXCEPT !.pc = "done"]]
            /\ UNCHANGED <<blobs, importOthers>>

\* The except branch (optimized 143-149, 237-243): update to "failed", then
\* v1 re-raises; the background task of v2 ends.  When the update itself
\* raises, that exception leaves the branch.
ImpMarkFailed ==
    \E p \in ProcIds, fails \in BOOLEAN :
        LET pr == procs[p]
        IN  /\ pr.pc = "fail"
            /\ imports' = IF fails THEN imports
                          ELSE UpdateScanImportStatus(imports, pr.import_id,
                                   "failed", -1, FALSE, pr.error)
            /\ procs' = [procs EXCEPT ![p] =
                  IF pr.wf = "v1"
                  THEN Raised(pr, IF fails THEN "StatusUpdateError" ELSE pr.error)
                  ELSE [pr EXCEPT !.pc = "done"]]
            /\ UNCHANGED <<blobs, importOthers>>

\* The record a database function creates or completes.
RpcImport(tbl, pr, status) ==
    [NewImport(tbl, pr.project_id, FileHash, status) EXCEPT
        !.findings_total = IF status = "processed" THEN pr.n ELSE @,
        !.has_bounds = TRUE]

\* fn_v3_bulk_insert_scan_data (optimized 384-408): record and data in one
\* transaction.
ImpBulkRpc ==
    \E p \in ProcIds, ok \in BOOLEAN :
        LET pr == procs[p]
        IN  /\ pr.pc = "rpc"
            /\ IF ok
               THEN /\ imports' = Append(imports, RpcImport(imports, pr, "processed"))
                    /\ procs' = [procs EXCEPT ![p] =
                          Returned([pr EXCEPT !.import_id = Len(imports) + 1],
                                   "processed")]
               ELSE /\ procs' = [procs EXCEPT ![p] =
                          Raised([pr EXCEPT !.recon_failed = TRUE], "RPCError")]
                    /\ UNCHANGED imports
            /\ UNCHANGED <<blobs, importOthers>>

\* _process_single: fn_process_scan_import_v4 (import_service.py 217-241).
ImpSingleRpc ==
    \E p \in ProcIds, ok \in BOOLEAN :
        LET pr == procs[p]
        IN  /\ pr.pc = "single"
            /\ IF ok
               THEN /\ imports' = Append(imports, RpcImport(imports, pr, "processed"))
                    /\ procs' = [procs EXCEPT ![p] =
                          Returned([pr EXCEPT !.import_id = Len(imports) + 1],
                                   "processed")]
               ELSE /\ procs' = [procs EXCEPT ![p] =
                          [pr EXCEPT !.recon_failed = TRUE, !.error = "RPCError",
                                     !.pc = "cleanup"]]
                    /\ UNCHANGED imports
            /\ UNCHANGED <<blobs, importOthers>>

\* _process_in_batches: fn_create_scan_import_record (330-355).
ImpCreateImportRecord ==
    \E p \in ProcIds, ok \in BOOLEAN :
        LET pr == procs[p]
        IN  /\ pr.pc = "create_record"
            /\ IF ok
               THEN /\ imports' = Append(imports, RpcImport(imports, pr, "processing"))
                    /\ procs' = [procs EXCEPT ![p] =
                          [pr EXCEPT !.import_id = Len(imports) + 1, !.pc = "batch"]]
               ELSE /\ procs' = [procs EXCEPT ![p] =
                          [pr EXCEPT !.error = "RPCError", !.pc = "cleanup"]]
                    /\ UNCHANGED imports
            /\ UNCHANGED <<blobs, importOthers>>

\* One turn of the batch loop: fn_process_scan_batch (396-430).  batches
\* logs what each call was given, i is the loop variable.  committed
\* counts the batches the database has committed, failed_batch is the
\* batch_number of the turn that failed; the error is the detail of the
\* RPCError raised at line 430.
ImpBatch ==
    \E p \in ProcIds, ok \in BOOLEAN, error \in BatchErrors :
        LET at == procs[p]
            i == at.batch_number * BATCH_SIZE
            pr == [at EXCEPT !.batches = Append(@,
                       [batch_number |-> at.batch_number + 1,
                        findings |-> BatchFindings(at.n, i),
                        assets |-> BatchAssets(i)])]
        IN  /\ pr.pc = "batch" /\ pr.batch_number * BATCH_SIZE < pr.n
            /\ ok => error = NoStr
            /\ procs' = [procs EXCEPT ![p] =
                  IF ok THEN [pr EXCEPT !.batch_number = @ + 1,
                                        !.committed = @ + 1]
                  ELSE [pr EXCEPT !.batch_number = @ + 1, !.recon_failed = TRUE,
                                  !.failed_batch = pr.batch_number + 1,
                                  !.error = RPCError("fn_process_scan_batch",
                                                DictGet(error, "Batch failed")).detail,
                                  !.pc = "fail_rpc"]]
            /\ UNCHANGED <<imports, blobs, importOthers>>

\* fn_finalize_scan_import after the last batch (446-461).
ImpFinalize ==
    \E p \in ProcIds, ok \in BOOLEAN :
        LET pr == procs[p]
        IN  /\ pr.pc = "batch" /\ pr.batch_number * BATCH_SIZE >= pr.n
            /\ IF ok
               THEN /\ imports' = UpdateScanImportStatus(imports, pr.import_id,
                                      "processed", pr.n, TRUE, "")
                    /\ procs' = [procs EXCEPT ![p] =
                          Returned([pr EXCEPT !.finalize_called = TRUE], "processed")]
               ELSE /\ procs' = [procs EXCEPT ![p] =
                          [pr EXCEPT !.recon_failed = TRUE, !.error = "RPCError",
                                     !.finalize_called = TRUE, !.pc = "fail_rpc"]]
                    /\ UNCHANGED imports
            /\ UNCHANGED <<blobs, importOthers>>

\* The except branch of _process_in_batches: fn_fail_scan_import, whose own
\* failure is dropped (494-508).
ImpFailImport ==
    \E p \in ProcIds, ok \in BOOLEAN :
        LET pr == procs[p]
        IN  /\ pr.pc = "fail_rpc"
            /\ imports' = IF ok
                          THEN UpdateScanImportStatus(imports, pr.import_id,
                                   "failed", -1, FALSE, pr.error)
                          ELSE imports
            /\ procs' = [procs EXCEPT ![p] = [pr EXCEPT !.pc = "cleanup"]]
            /\ UNCHANGED <<blobs, importOthers>>

\* The except branch of process_scan: the stored object is removed, a
\* failure of the removal is dropped, and the error is re-raised (144-151).
ImpCleanup ==
    \E p \in ProcIds, ok \in BOOLEAN :
        LET pr == procs[p]
        IN  /\ pr.pc = "cleanup"
            /\ blobs' = IF ok THEN blobs \ {pr.blob} ELSE blobs
            /\ procs' = [procs EXCEPT ![p] = Raised(pr, pr.error)]
            /\ UNCHANGED <<imports, importOthers>>

ImportNext ==
    \/ ImpBegin
    \/ ImpCheckDuplicate
    \/ ImpDetect
    \/ ImpUpload
    \/ ImpCreateRecord
    \/ ImpParse
    \/ ImpSave
    \/ ImpMarkProcessed
    \/ ImpMarkFailed
    \/ ImpBulkRpc
    \/ ImpSingleRpc
    \/ ImpCreateImportRecord
    \/ ImpBatch
    \/ ImpFinalize
    \/ ImpFailImport
    \/ ImpCleanup

SpecImport == ImportInit /\ [][ImportNext]_vars

(***************************************************************************)
(* Claims on the import workflows                                          *)
(***************************************************************************)

\* The uploads whose duplicate check is behind them.
PastDuplicateCheck ==
    {p \in ProcIds : /\ procs[p].pc \notin {"idle", "dupcheck"}
                     /\ procs[p].outcome # "ValidationError"}

\* C2: an upload whose hash equals that of an import record of the same
\* project is rejected with DuplicateError when no override is given, and
\* is not rejected as a duplicate when force_upload is given.
C2_DuplicateRejectedUnlessForced ==
    \A p \in PastDuplicateCheck :
        procs[p].dup_existed =>
            IF procs[p].force_upload
            THEN procs[p].outcome # "DuplicateError"
            ELSE procs[p].outcome = "DuplicateError"

\* The uploads that have ended and have an import record.
EndedWithRecord ==
    {p \in ProcIds : procs[p].pc = "done" /\ procs[p].import_id # 0}

\* C5: once the record exists, a failure of parse or of reconciliation ends
\* with the record failed, its error message set and the error raised to
\* the caller; success of both ends with the record processed, with the
\* counters and the scan bounds.
C5_FailedOrProcessed ==
    \A p \in EndedWithRecord :
        LET pr == procs[p]
            rec == imports[pr.import_id]
        IN  IF pr.parse_failed \/ pr.recon_failed
            THEN /\ rec.status = "failed"
                 /\ rec.error_message # ""
                 /\ pr.outcome \notin {"", "processed", "queued"}
            ELSE /\ rec.status = "processed"
                 /\ rec.findings_total = pr.n
                 /\ rec.has_bounds

\* C12: process_scan stores the bytes before it calls adapter.parse, and the
\* stored object is still in blob storage when the call has ended with a
\* failure of parse or of reconciliation.
C12_BlobStoredAndKept ==
    \A p \in ProcIds :
        LET pr == procs[p]
        IN  pr.wf = "process_scan" =>
              /\ pr.parse_called => pr.blob_at_parse
              /\ (pr.pc = "done" /\ pr.blob # 0
                      /\ (pr.parse_failed \/ pr.recon_failed))
                    => pr.blob \in blobs

\* The import records in a final status.
FinalStatuses == {"processed", "failed"}

\* C13: in every workflow the import record exists, in status processing,
\* when adapter.parse is called; it has a final status only when parse and
\* reconciliation are behind the upload; a parse failure leaves a record.
C13_RecordBeforeParse ==
    \A p \in ProcIds :
        LET pr == procs[p]
        IN  /\ pr.parse_called => pr.status_at_parse = "processing"
            /\ (pr.import_id # 0 /\ imports[pr.import_id].status \in FinalStatuses)
                  => pr.pc \in {"done", "cleanup"}
            /\ (pr.pc = "done" /\ pr.parse_failed) => pr.import_id # 0

\* C14: the step that rejects an upload as a duplicate leaves the import
\* records, the blob storage and the reconciled store as they were, and the
\* rejected upload has stored no blob, created no record and called no
\* parse before it.
C14_DuplicateRejectionWritesNothing ==
    [][\A p \in ProcIds :
          (procs[p].outcome # "DuplicateError"
              /\ procs'[p].outcome = "DuplicateError") =>
            /\ imports' = imports /\ blobs' = blobs /\ store' = store
            /\ procs'[p].blob = 0 /\ procs'[p].import_id = 0
            /\ ~procs'[p].parse_called /\ procs'[p].committed = 0]_vars

\* An upload was rejected as a duplicate while records and blobs exist.
C14_Witness ==
    \E p \in ProcIds :
        /\ procs[p].outcome = "DuplicateError" /\ procs[p].dup_existed
        /\ imports # <<>> /\ blobs # {}

\* C15: when validate answers false the caller gets a ParseError carrying
\* the scanner name and the filename; the upload ends there: parse was not
\* called, no blob was stored and no import record was created.
C15_InvalidFileRejected ==
    [][\A p \in ProcIds :
          (procs[p].pc = "detect" /\ procs'[p].outcome = "ParseError") =>
            /\ procs'[p].scanner \in ScannerNames
            /\ procs'[p].extra = [scanner |-> procs'[p].scanner,
                                  filename |-> Filename]
            /\ procs'[p].pc = "done" /\ ~procs'[p].parse_called
            /\ procs'[p].blob = 0 /\ procs'[p].import_id = 0
            /\ imports' = imports /\ blobs' = blobs]_vars

\* An upload was rejected by validate.
C15_Witness ==
    \E p \in ProcIds :
        /\ procs[p].outcome = "ParseError" /\ ~procs[p].parse_called
        /\ procs[p].extra # NoValue

\* The uploads that went through _process_in_batches.
BatchMode ==
    {p \in ProcIds : procs[p].wf = "process_scan" /\ procs[p].n > BATCH_THRESHOLD}

\* C16: finalize is called only when every batch was submitted and
\* committed; when batch k fails no later batch is submitted, finalize is
\* not called, batches 1..k-1 stay committed and the call ends with the
\* import record failed.
C16_BatchesThenFinalize ==
    \A p \in BatchMode :
        LET pr == procs[p]
        IN  /\ pr.finalize_called =>
                  /\ pr.failed_batch = 0
                  /\ pr.batch_number * BATCH_SIZE >= pr.n
                  /\ pr.committed = pr.batch_number
            /\ pr.failed_batch # 0 =>
                  /\ pr.batch_number = pr.failed_batch
                  /\ ~pr.finalize_called
                  /\ pr.committed = pr.failed_batch - 1
                  /\ pr.pc = "done" => imports[pr.import_id].status = "failed"

\* C17: the error of a failed batch tells which batch failed: two uploads
\* that failed in batches of different index carry different errors, to the
\* caller and on the import record.
C17_BatchErrorNamesIndex ==
    \A p, q \in BatchMode :
        LET pr == procs[p]
            qr == procs[q]
        IN  (pr.pc = "done" /\ qr.pc = "done" /\ pr.failed_batch # 0
                /\ qr.failed_batch # 0 /\ pr.failed_batch # qr.failed_batch) =>
              /\ pr.outcome # qr.outcome
              /\ imports[pr.import_id].error_message
                    # imports[qr.import_id].error_message

\* ceil(n / BATCH_SIZE).
CeilBatches(n) == (n + BATCH_SIZE - 1) \div BATCH_SIZE

LookupHadMatch ==
    {p \in PastDuplicateCheck :
        /\ procs[p].dup_existed
        /\ Optimized(procs[p]) =>
              (~procs[p].force_upload /\ Truthy(procs[p].project_id))}

\* C25: an import in which a database call of reconciliation failed does
\* not end processed, neither in its result nor on its record, and ends
\* with the error raised or the record failed; a duplicate lookup that had
\* a record to find never lets the upload go on, so a lookup that failed is
\* not taken for 'not a duplicate'.
C25_FailuresRecordedOrPropagated ==
    /\ \A p \in ProcIds :
          LET pr == procs[p]
          IN  (pr.pc = "done" /\ pr.recon_failed) =>
                /\ pr.outcome # "processed"
                /\ pr.import_id # 0 => imports[pr.import_id].status # "processed"
                /\ \/ pr.outcome \notin {"", "processed", "queued"}
                   \/ pr.import_id # 0 /\ imports[pr.import_id].status = "failed"
    /\ \A p \in LookupHadMatch :
          procs[p].pc = "done" /\ procs[p].outcome \notin {"", "processed", "queued"}

\* The uploads that ran the duplicate lookup: without override, and in the
\* optimized workflows with a project.
CheckedUploads ==
    {p \in PastDuplicateCheck :
        IF Optimized(procs[p])
        THEN ~procs[p].force_upload /\ Truthy(procs[p].project_id)
        ELSE TRUE}

\* The uploads that own an import record.
WithRecord == {p \in ProcIds : procs[p].import_id # 0}

\* C27: the duplicate check and the creation of the record are two steps.
\* An upload that ran the lookup owns a record only if the lookup raised or
\* no record of its project and hash existed when the lookup ran; nothing
\* is checked again when the record is created, so two such uploads can
\* both own a record of the same project and hash (C27_Witness).
C27_CheckNotAtomicWithCreate ==
    \A p \in CheckedUploads \cap WithRecord :
        procs[p].dup_failed \/ ~procs[p].dup_existed

\* C27 witness: two uploads of the same bytes to p1, both without override,
\* both passed a duplicate lookup that did not raise, and each owns its own
\* record with the same file_hash.
C27_Witness ==
    \E p, q \in CheckedUploads \cap WithRecord :
        /\ p # q
        /\ procs[p].import_id # procs[q].import_id
        /\ ~procs[p].force_upload /\ ~procs[q].force_upload
        /\ ~procs[p].dup_failed /\ ~procs[q].dup_failed
        /\ procs[p].project_id = "p1" /\ procs[q].project_id = "p1"
        /\ imports[procs[p].import_id].project_id = "p1"
        /\ imports[procs[q].import_id].project_id = "p1"
        /\ imports[procs[p].import_id].file_hash
              = imports[procs[q].import_id].file_hash

\* The record of every ended workflow is processed or failed.
EndedRecordsFinal ==
    \A p \in WithRecord :
        procs[p].pc = "done" => imports[procs[p].import_id].status \in FinalStatuses

\* No step changes the status of a record that is processed or failed.
FinalStatusKept ==
    \A i \in 1..Len(imports) :
        imports[i].status \in FinalStatuses =>
            /\ i <= Len(imports')
            /\ imports'[i].status = imports[i].status

\* C29: once a workflow that created an import record has ended, by
\* success or by a failure of parse, reconciliation or a status update, the
\* record is processed or failed, not queued or processing; and a record
\* that is processed or failed keeps its status.
C29_RecordReachesFinalStatus ==
    [][EndedRecordsFinal' /\ FinalStatusKept]_vars

\* Upload p runs its duplicate check in this step while a failed record of
\* its project and of the same bytes exists.
ChecksAgainstFailed(p) ==
    /\ procs[p].pc = "dupcheck" /\ procs'[p].pc # "dupcheck"
    /\ Truthy(procs[p].project_id)
    /\ \E i \in 1..Len(imports) :
          /\ imports[i].project_id = procs[p].project_id
          /\ imports[i].file_hash = FileHash
          /\ imports[i].status = "failed"

\* C30: an upload of bytes whose earlier import into the same project ended
\* failed is rejected with DuplicateError when it comes without override,
\* and goes on to be processed only when it comes with override.
C30_FailedRecordStillDuplicate ==
    [][\A p \in ProcIds :
          ChecksAgainstFailed(p) =>
              IF procs[p].force_upload
              THEN procs'[p].outcome # "DuplicateError"
              ELSE procs'[p].pc = "done" /\ procs'[p].outcome = "DuplicateError"]_vars
====
